---- MODULE Spec2Model ----
(***************************************************************************)
(* PeopleConnects: a server-rendered social network kept in two document   *)
(* collections (users, posts).  Two implementations of the same surface    *)
(* exist: src/backend/main.py (signed-token session, async store client,   *)
(* unique indexes, admin routes) and src/main.py (raw-username cookie,     *)
(* blocking store client, no indexes).  The state is the content of the    *)
(* collections, the tokens the server has signed, and the request that was *)
(* answered last together with its response.                               *)
(***************************************************************************)
EXTENDS Integers, Sequences, FiniteSets, TLC

\* ---------------------------------------------------------------- bounds
MaxUsers == 2
MaxPosts == 1
MaxCommentedPosts == 2
MaxFeedPosts == 3

Names == {"a", "b", "1"}
Emails == {"e1", "e2"}
Passwords == {"p1", "p2"}
Contents == {"t1", "t2"}

VARIABLES
    impl,               \* which of the two applications is deployed
    users,              \* signed-token application: db.users, _id -> document
    posts,              \* signed-token application: db.posts, _id -> document
    users_collection,   \* plaintext-cookie application: users, _id -> document
    posts_collection,   \* plaintext-cookie application: posts, _id -> document
    next_user_id,       \* the next fresh ObjectId of a user document
    next_post_id,       \* the next fresh ObjectId of a post document
    issued,             \* the session cookies the application has set so far
    last,               \* the request answered last, and its response
    budget,             \* the number of requests the clients may still send
    observed,           \* the operations whose requests `last` records
    inflight,           \* requests of the async application between two awaits
    uploads,            \* the files stored under static/uploads/profiles
    created_by,         \* history: post _id -> _id of the user record whose
                        \* session created the post (0: it had no record)
    jar                 \* the cookies of the browser that logs in and out:
                        \* cookie name -> value

vars == <<impl, users, posts, users_collection, posts_collection,
          next_user_id, next_post_id, issued, last, budget, observed, inflight,
          uploads, created_by, jar>>

store == <<users, posts, users_collection, posts_collection,
           next_user_id, next_post_id>>

\* ------------------------------------------------------- values, helpers
None == "None"

Range(s) == {s[i] : i \in DOMAIN s}

Min(S) == CHOOSE x \in S : \A y \in S : x <= y

\* str(ObjectId): the text of an _id as it appears in a URL path.
ObjectIdStr(id) == ToString(id)

\* ------------------------------------------------------ tokens (auth.py)
\* The absent cookie.
NoToken == [sub |-> None, role |-> None, sig |-> "absent"]

NoPayload == [sub |-> None, role |-> None]

\* A token the server signed over a payload.
create_access_token(sub, role) == [sub |-> sub, role |-> role, sig |-> "valid"]

\* A token a client made up: any payload, no valid signature.
ForgedTokens == {[sub |-> n, role |-> r, sig |-> "forged"] :
                    n \in Names \cup {"admin"}, r \in {None, "admin"}}

\* The payload of a token whose signature verifies, else nothing.
decode_token(token) ==
    IF token.sig = "valid" THEN [sub |-> token.sub, role |-> token.role]
    ELSE NoPayload

hash_password(password) == "hash:" \o password

verify_password(password, hashed) == hashed = hash_password(password)

\* The raw cookie of the plaintext-cookie application: the username itself.
RawCookie(username) == [sub |-> username, role |-> None, sig |-> "raw"]

\* ------------------------------------------------------------- responses
Response(kind, val, error, username, email, key, cookie) ==
    [kind |-> kind, val |-> val, error |-> error, username |-> username,
     email |-> email, cookie_key |-> key, set_cookie |-> cookie,
     posts |-> << >>]

RedirectResponse(url) ==
    Response("redirect", url, None, None, None, None, NoToken)

\* response.set_cookie(key=key, value=cookie) on a redirect.
RedirectWithCookie(url, key, cookie) ==
    Response("redirect", url, None, None, None, key, cookie)

\* The value delete_cookie sends: empty, and expired on arrival.
ExpiredCookie == [sub |-> None, role |-> None, sig |-> "expired"]

\* response.delete_cookie(key) on a redirect.
RedirectDeletingCookie(url, key) ==
    Response("redirect", url, None, None, None, key, ExpiredCookie)

TemplateResponse(name, error, username, email) ==
    Response("template", name, error, username, email, None, NoToken)

\* feed.html rendered with the posts (their _ids, in the order shown).
FeedPage(username, shown) ==
    [TemplateResponse("feed.html", None, username, None)
         EXCEPT !.posts = shown]

HTTPException(status_code) ==
    Response("http_error", status_code, None, None, None, None, NoToken)

\* An exception no handler catches: the framework answers 500.
Unhandled(exception) ==
    Response("exception", exception, None, None, None, None, NoToken)

\* The request answered last: operation, session cookie, the _id and the
\* name in its path or form, the submitted email, the number of store
\* updates the handler issued, the response, and who liked the post the
\* request names before it was answered.
Answered(op, cookie, id, name, email, steps, resp, likes_before) ==
    [op |-> op, cookie |-> cookie, id |-> id, name |-> name, email |-> email,
     steps |-> steps, resp |-> resp, likes_before |-> likes_before]

\* ------------------------------------------------- document store client
\* find_one: the _id of the first document (in insertion order) that
\* matches, 0 when none does.
FindOne(coll, Match(_)) ==
    LET hit == {i \in DOMAIN coll : Match(coll[i])}
    IN  IF hit = {} THEN 0 ELSE Min(hit)

InsertOne(coll, id, doc) == [i \in DOMAIN coll \cup {id} |->
                                IF i = id THEN doc ELSE coll[i]]

DeleteOne(coll, id) == [i \in DOMAIN coll \ {id} |-> coll[i]]

DeleteMany(coll, Match(_)) ==
    [i \in {j \in DOMAIN coll : ~Match(coll[j])} |-> coll[i]]

\* update_one: Change applied to the first matching document.
UpdateOne(coll, Match(_), Change(_)) ==
    LET id == FindOne(coll, Match)
    IN  [i \in DOMAIN coll |-> IF i = id THEN Change(coll[i]) ELSE coll[i]]

\* update_many: Change applied to every matching document.
UpdateMany(coll, Match(_), Change(_)) ==
    [i \in DOMAIN coll |-> IF Match(coll[i]) THEN Change(coll[i]) ELSE coll[i]]

\* $addToSet: append unless already an element.
AddToSet(array, x) == IF x \in Range(array) THEN array ELSE Append(array, x)

\* $pull: remove every occurrence.
Pull(array, x) == SelectSeq(array, LAMBDA y : y # x)

\* $push
Push(array, x) == Append(array, x)

\* {"$set": {"field.$": new}} under the filter {"field": old}: the
\* positional operator rewrites the FIRST element equal to old.
SetPositional(array, old, new) ==
    IF old \notin Range(array) THEN array
    ELSE LET first == Min({i \in DOMAIN array : array[i] = old})
         IN  [array EXCEPT ![first] = new]

\* {"$set": {"comments.$[elem].username": new}} with the array filter
\* elem.username = old: every matching element is rewritten.
SetFilteredUsername(comments, old, new) ==
    [i \in DOMAIN comments |->
        IF comments[i].username = old
        THEN [comments[i] EXCEPT !.username = new] ELSE comments[i]]

\* A users collection without its unique indexes.
DuplicateKeyNoIndex(coll, id, doc) == FALSE

\* The unique indexes on users.username and users.email: would writing doc
\* at _id id collide with another document?
DuplicateKey(coll, id, doc) ==
    \E j \in DOMAIN coll \ {id} :
        coll[j].username = doc.username \/ coll[j].email = doc.email

\* ------------------------------------------------------- session helpers
\* A session helper that reads the payload without verifying the signature.
get_current_user_unverified(cookie) ==
    IF cookie.sig = "absent" THEN None ELSE cookie.sub

\* backend/main.py get_current_user: the token's subject, no store lookup.
get_current_user(cookie) ==
    IF cookie.sig = "absent" THEN None
    ELSE decode_token(cookie).sub

\* main.py get_current_user: the _id of the user the raw cookie names.
get_current_user_plain(cookie) ==
    IF cookie.sig = "absent" THEN 0
    ELSE FindOne(users_collection, LAMBDA d : d.username = cookie.sub)

\* The cookies a request to the signed-token application may carry.
Cookies == issued \cup ForgedTokens \cup {NoToken}

\* The cookies a request to the plaintext-cookie application may carry.
RawCookies == {RawCookie(n) : n \in Names} \cup {NoToken}

\* --------------------------------------------------------------- browser
\* The cookies the two applications set.
CookieKeys == {"access_token", "admin_token", "username"}

\* The cookie get_current_user reads.
SessionKey == IF impl = "signed" THEN "access_token" ELSE "username"

\* The browser's cookies once it has received the response: a cookie that
\* arrives expired is dropped, any other is kept under its name.  The
\* browser is the client that sends the login and logout requests; it is
\* followed where logout is observed.
Received(record) ==
    IF \/ "logout" \notin observed
       \/ record.op \notin {"login", "logout"}
       \/ record.resp.cookie_key = None
    THEN jar
    ELSE [jar EXCEPT ![record.resp.cookie_key] =
             IF record.resp.set_cookie = ExpiredCookie THEN NoToken
             ELSE record.resp.set_cookie]

\* ------------------------------------------------------------------ init
NoRequest ==
    Answered("none", NoToken, 0, None, None, 0, RedirectResponse("/"), {})

\* The usernames in the likes array of a post, none for an unknown _id.
LikedBy(coll, post_id) ==
    IF post_id \in DOMAIN coll THEN Range(coll[post_id].likes) ELSE {}

InitStore ==
    /\ users = << >>
    /\ posts = << >>
    /\ users_collection = << >>
    /\ posts_collection = << >>
    /\ next_user_id = 1
    /\ next_post_id = 1
    /\ issued = {}
    /\ last = NoRequest
    /\ inflight = << >>
    /\ uploads = {}
    /\ created_by = << >>
    /\ jar = [key \in CookieKeys |-> NoToken]

\* Every handler that runs to its response in one step answers like this.
\* `last` keeps the request when its operation is one the specification
\* observes.
Answer(record) ==
    /\ budget > 0
    /\ budget' = budget - 1
    /\ last' = IF record.op \in observed THEN record ELSE NoRequest
    /\ jar' = Received(record)
    /\ UNCHANGED <<impl, observed, inflight>>

\* The step answers an observed request.
Answers(ops) == last'.op \in ops /\ budget' # budget

\* ------------------------------------------------- outcome of a handler
\* What a handler of the signed-token application leaves behind: the two
\* collections, the tokens signed, the number of store updates it issued,
\* its response, and the file it stored if it stored one.
Out(u, p, iss, steps, resp) ==
    [users |-> u, posts |-> p, issued |-> iss, steps |-> steps, resp |-> resp,
     file |-> None]

\* The handler wrote nothing.
NoWrite(resp) == Out(users, posts, issued, 0, resp)

\* The number of posts the clients create: two where the comments of one
\* post are told from those of another, or an edited post from the posts
\* next to it, three where the feed puts them in order, else MaxPosts.
PostBound ==
    IF observed \in {{"add_comment", "comment_on_post"},
                     {"create_post", "edit_post", "delete_post"}}
    THEN MaxCommentedPosts
    ELSE IF observed = {"feed"} THEN MaxFeedPosts
    ELSE MaxPosts

\* The state a handler of the signed-token application leaves behind.
Write(out) ==
    /\ impl = "signed"
    /\ next_user_id \in DOMAIN out.users => next_user_id <= MaxUsers
    /\ next_post_id \in DOMAIN out.posts => next_post_id <= PostBound
    /\ users' = out.users
    /\ posts' = out.posts
    /\ issued' = out.issued
    /\ next_user_id' = IF next_user_id \in DOMAIN out.users
                       THEN next_user_id + 1 ELSE next_user_id
    /\ next_post_id' = IF next_post_id \in DOMAIN out.posts
                       THEN next_post_id + 1 ELSE next_post_id
    /\ uploads' = IF out.file = None THEN uploads ELSE uploads \cup {out.file}
    /\ created_by' = IF next_post_id \in DOMAIN out.posts
                     THEN InsertOne(created_by, next_post_id,
                              FindOne(users, LAMBDA d : d.username =
                                          out.posts[next_post_id].author))
                     ELSE created_by
    /\ UNCHANGED <<users_collection, posts_collection>>

\* The handler of the signed-token application ran to its response.
Commit(op, cookie, id, name, email, out) ==
    /\ Write(out)
    /\ Answer(Answered(op, cookie, id, name, email, out.steps, out.resp,
                       LikedBy(posts, id)))

\* ------------------------------ signed-token application: registration
NewUser(username, email, password) ==
    [username |-> username, email |-> email,
     password |-> hash_password(password), profile_pic |-> None,
     followers |-> << >>, following |-> << >>]

\* db.users.insert_one under the unique indexes: the document is stored,
\* or the store raises DuplicateKeyError, which register does not catch.
insert_user_result(doc) ==
    IF DuplicateKey(users, next_user_id, doc)
    THEN NoWrite(Unhandled("DuplicateKeyError"))
    ELSE Out(InsertOne(users, next_user_id, doc), posts, issued, 1,
             RedirectResponse("/login?registered=true"))

\* A registration that looks for the username only.
register_result_username_only(username, email, password) ==
    LET existing_user == FindOne(users, LAMBDA d : d.username = username)
    IN  IF existing_user # 0
        THEN NoWrite(TemplateResponse("register.html",
                 "Username already taken", username, email))
        ELSE insert_user_result(NewUser(username, email, password))

register_result(username, email, password) ==
    LET existing_user == FindOne(users, LAMBDA d :
                             d.username = username \/ d.email = email)
    IN  IF existing_user # 0
        THEN NoWrite(TemplateResponse("register.html",
                 IF users[existing_user].username = username
                 THEN "Username already taken" ELSE "Email already registered",
                 username, email))
        ELSE insert_user_result(NewUser(username, email, password))

register(username, email, password) ==
    Commit("register", NoToken, 0, username, email,
           register_result(username, email, password))

login_result(username, password) ==
    LET user == FindOne(users, LAMBDA d : d.username = username)
    IN  IF user = 0
        THEN NoWrite(TemplateResponse("login.html", "Username not found",
                                      username, None))
        ELSE IF ~verify_password(password, users[user].password)
        THEN NoWrite(TemplateResponse("login.html", "Incorrect password",
                                      username, None))
        ELSE Out(users, posts,
                 issued \cup {create_access_token(username, None)}, 0,
                 RedirectWithCookie("/feed", "access_token",
                                    create_access_token(username, None)))

login(username, password) ==
    Commit("login", NoToken, 0, username, None,
           login_result(username, password))

\* A logout that deletes a cookie of another name.
logout_result_other_key == NoWrite(RedirectDeletingCookie("/", "token"))

\* logout: the redirect that deletes the access_token cookie; no token is
\* read and nothing is written.
logout_result == NoWrite(RedirectDeletingCookie("/", "access_token"))

logout == Commit("logout", jar["access_token"], 0, None, None, logout_result)

\* ------------------------------------- signed-token application: posts
\* datetime.utcnow() at the insert of a post: the clock moves on between
\* two inserts, so a later post carries a later timestamp.
utcnow == next_post_id

NewPost(author, content, timestamp) ==
    [author |-> author, content |-> content, image |-> None,
     timestamp |-> timestamp, likes |-> << >>, comments |-> << >>]

create_post_result(cookie, content) ==
    LET username == get_current_user(cookie)
    IN  IF username = None THEN NoWrite(HTTPException("401"))
        ELSE Out(users, InsertOne(posts, next_post_id,
                                  NewPost(username, content, utcnow)),
                 issued, 1, RedirectResponse("/feed"))

create_post(cookie, content) ==
    Commit("create_post", cookie, 0, None, None,
           create_post_result(cookie, content))

\* A like_post that never takes a like back.
ToggleLikeAddOnly(read, array, username) == AddToSet(array, username)

\* The update like_post issues after reading the likes array `read`.
ToggleLike(read, array, username) ==
    IF username \in Range(read) THEN Pull(array, username)
    ELSE AddToSet(array, username)

like_post_result(cookie, post_id) ==
    LET username == get_current_user(cookie)
    IN  IF username = None THEN NoWrite(HTTPException("401"))
        ELSE IF post_id \notin DOMAIN posts THEN NoWrite(HTTPException("404"))
        ELSE Out(users,
                 [posts EXCEPT ![post_id].likes =
                     ToggleLike(posts[post_id].likes, @, username)],
                 issued, 1, RedirectResponse("/posts/{post_id}"))

like_post(cookie, post_id) ==
    Commit("like_post", cookie, post_id, None, None,
           like_post_result(cookie, post_id))

\* An add_comment that sets the comments array instead of pushing to it.
add_comment_result_set(cookie, post_id, text) ==
    LET username == get_current_user(cookie)
        comment == [username |-> username, text |-> text]
    IN  IF username = None THEN NoWrite(HTTPException("401"))
        ELSE Out(users,
                 IF post_id \in DOMAIN posts
                 THEN [posts EXCEPT ![post_id].comments = <<comment>>]
                 ELSE posts,
                 issued, 1, RedirectResponse("/posts/{post_id}"))

\* update_one({"_id": post_id}, {"$push": {"comments": comment}}): no
\* document matches an unknown _id, and the handler never looks.
add_comment_result(cookie, post_id, text) ==
    LET username == get_current_user(cookie)
        comment == [username |-> username, text |-> text]
    IN  IF username = None THEN NoWrite(HTTPException("401"))
        ELSE Out(users,
                 IF post_id \in DOMAIN posts
                 THEN [posts EXCEPT ![post_id].comments = Push(@, comment)]
                 ELSE posts,
                 issued, 1, RedirectResponse("/posts/{post_id}"))

add_comment(cookie, post_id, text) ==
    /\ Commit("add_comment", cookie, post_id, text, None,
              add_comment_result(cookie, post_id, text))

\* A handler that lets any session user through.
IsAuthorUnchecked(post, username) == TRUE

\* May the session user change this post?
IsAuthor(post, username) == post.author = username

\* An edit_post that writes the document anew instead of setting its
\* content.
edit_post_result_replace(cookie, post_id, content) ==
    LET username == get_current_user(cookie)
    IN  IF username = None THEN NoWrite(HTTPException("401"))
        ELSE IF post_id \notin DOMAIN posts THEN NoWrite(HTTPException("404"))
        ELSE IF ~IsAuthor(posts[post_id], username)
        THEN NoWrite(HTTPException("403"))
        ELSE Out(users,
                 [posts EXCEPT ![post_id] =
                     NewPost(username, content, @.timestamp)],
                 issued, 1, RedirectResponse("/posts/{post_id}"))

edit_post_result(cookie, post_id, content) ==
    LET username == get_current_user(cookie)
    IN  IF username = None THEN NoWrite(HTTPException("401"))
        ELSE IF post_id \notin DOMAIN posts THEN NoWrite(HTTPException("404"))
        ELSE IF ~IsAuthor(posts[post_id], username)
        THEN NoWrite(HTTPException("403"))
        ELSE Out(users, [posts EXCEPT ![post_id].content = content],
                 issued, 1, RedirectResponse("/posts/{post_id}"))

edit_post(cookie, post_id, content) ==
    Commit("edit_post", cookie, post_id, content, None,
           edit_post_result(cookie, post_id, content))

delete_post_result(cookie, post_id) ==
    LET username == get_current_user(cookie)
    IN  IF username = None THEN NoWrite(HTTPException("401"))
        ELSE IF post_id \notin DOMAIN posts THEN NoWrite(HTTPException("404"))
        ELSE IF ~IsAuthor(posts[post_id], username)
        THEN NoWrite(HTTPException("403"))
        ELSE Out(users, DeleteOne(posts, post_id), issued, 1,
                 RedirectResponse("/feed"))

delete_post(cookie, post_id) ==
    Commit("delete_post", cookie, post_id, None, None,
           delete_post_result(cookie, post_id))

\* ------------------------------- signed-token application: follow graph
follow_user_result(cookie, username) ==
    LET current_user == get_current_user(cookie)
        users1 == UpdateOne(users, LAMBDA d : d.username = current_user,
                      LAMBDA d : [d EXCEPT !.following = AddToSet(@, username)])
        users2 == UpdateOne(users1, LAMBDA d : d.username = username,
                      LAMBDA d : [d EXCEPT !.followers = AddToSet(@, current_user)])
    IN  IF current_user = None THEN NoWrite(HTTPException("401"))
        ELSE IF current_user = username THEN NoWrite(HTTPException("400"))
        ELSE Out(users2, posts, issued, 2, RedirectResponse("/profile/{username}"))

follow_user(cookie, username) ==
    Commit("follow_user", cookie, 0, username, None,
           follow_user_result(cookie, username))

unfollow_user_result(cookie, username) ==
    LET current_user == get_current_user(cookie)
        users1 == UpdateOne(users, LAMBDA d : d.username = current_user,
                      LAMBDA d : [d EXCEPT !.following = Pull(@, username)])
        users2 == UpdateOne(users1, LAMBDA d : d.username = username,
                      LAMBDA d : [d EXCEPT !.followers = Pull(@, current_user)])
    IN  IF current_user = None THEN NoWrite(HTTPException("401"))
        ELSE Out(users2, posts, issued, 2, RedirectResponse("/profile/{username}"))

unfollow_user(cookie, username) ==
    Commit("unfollow_user", cookie, 0, username, None,
           unfollow_user_result(cookie, username))

\* ------------------------------- signed-token application: edit_profile
\* The number of store updates of a rename: the user record, post authors,
\* followers entries, following entries, likes, comments.
RenameUpdates == 6

\* {"$set": update_data} on a user document; None marks a field the form
\* left out.
SetUpdateData(doc, update_data) ==
    [doc EXCEPT !.username = IF update_data.username # None
                             THEN update_data.username ELSE @,
                !.email = IF update_data.email # None
                          THEN update_data.email ELSE @,
                !.password = IF update_data.password # None
                             THEN update_data.password ELSE @]

\* The store updates of edit_profile, each on the pair of collections st.
UpdateUserRecord(st, old, update_data) ==
    [st EXCEPT !.users = UpdateOne(@, LAMBDA d : d.username = old,
                            LAMBDA d : SetUpdateData(d, update_data))]

UpdatePostAuthors(st, old, new) ==
    [st EXCEPT !.posts = UpdateMany(@, LAMBDA d : d.author = old,
                            LAMBDA d : [d EXCEPT !.author = new])]

UpdateFollowers(st, old, new) ==
    [st EXCEPT !.users = UpdateMany(@, LAMBDA d : old \in Range(d.followers),
                            LAMBDA d : [d EXCEPT !.followers =
                                            SetPositional(@, old, new)])]

UpdateFollowing(st, old, new) ==
    [st EXCEPT !.users = UpdateMany(@, LAMBDA d : old \in Range(d.following),
                            LAMBDA d : [d EXCEPT !.following =
                                            SetPositional(@, old, new)])]

UpdateLikes(st, old, new) ==
    [st EXCEPT !.posts = UpdateMany(@, LAMBDA d : old \in Range(d.likes),
                            LAMBDA d : [d EXCEPT !.likes =
                                            SetPositional(@, old, new)])]

UpdateComments(st, old, new) ==
    [st EXCEPT !.posts = UpdateMany(@,
                            LAMBDA d : \E i \in DOMAIN d.comments :
                                           d.comments[i].username = old,
                            LAMBDA d : [d EXCEPT !.comments =
                                            SetFilteredUsername(@, old, new)])]

\* A sweep that rewrites the likes right after the user record and the
\* post authors last.
RenameUpdateLikesFirst(n, st, old, new, update_data) ==
    CASE n = 1 -> UpdateUserRecord(st, old, update_data)
      [] n = 2 -> UpdateLikes(st, old, new)
      [] n = 3 -> UpdateFollowers(st, old, new)
      [] n = 4 -> UpdateFollowing(st, old, new)
      [] n = 5 -> UpdatePostAuthors(st, old, new)
      [] n = 6 -> UpdateComments(st, old, new)

\* The n-th store update of edit_profile.
RenameUpdate(n, st, old, new, update_data) ==
    CASE n = 1 -> UpdateUserRecord(st, old, update_data)
      [] n = 2 -> UpdatePostAuthors(st, old, new)
      [] n = 3 -> UpdateFollowers(st, old, new)
      [] n = 4 -> UpdateFollowing(st, old, new)
      [] n = 5 -> UpdateLikes(st, old, new)
      [] n = 6 -> UpdateComments(st, old, new)

\* The first k store updates of edit_profile, in the order it issues them.
RECURSIVE RenameSweep(_, _, _, _, _)
RenameSweep(k, st, old, new, update_data) ==
    IF k = 0 THEN st
    ELSE RenameUpdate(k, RenameSweep(k - 1, st, old, new, update_data),
                      old, new, update_data)

\* update_one on the session user's record under the unique indexes: does
\* the store raise DuplicateKeyError?
UpdateCollides(current_username, update_data) ==
    LET target == FindOne(users, LAMBDA d : d.username = current_username)
    IN  /\ target # 0
        /\ DuplicateKey(users, target,
                        SetUpdateData(users[target], update_data))

\* An edit_profile that stores the submitted email and password before it
\* looks whether the new username is taken.
edit_profile_result_update_first(cookie, new_username, email, password, stop) ==
    LET current_username == get_current_user(cookie)
        renamed == new_username # current_username
        existing == FindOne(users, LAMBDA d : d.username = new_username)
        update_data == [username |-> IF renamed THEN new_username ELSE None,
                        email |-> email,
                        password |-> IF password # None
                                     THEN hash_password(password) ELSE None]
        st == [users |-> users, posts |-> posts]
        token == create_access_token(new_username, None)
    IN  IF current_username = None THEN NoWrite(HTTPException("401"))
        ELSE IF renamed /\ existing # 0
        THEN LET done == UpdateUserRecord(st, current_username,
                             [update_data EXCEPT !.username = None])
             IN  Out(done.users, done.posts, issued, 1,
                     TemplateResponse("edit_profile.html",
                         "Username already taken", current_username, None))
        ELSE IF ~renamed /\ email = None /\ password = None
        THEN NoWrite(RedirectResponse("/profile/{current_username}"))
        ELSE IF UpdateCollides(current_username, update_data)
        THEN NoWrite(Unhandled("DuplicateKeyError"))
        ELSE IF ~renamed
        THEN LET done == RenameSweep(1, st, current_username, new_username,
                                     update_data)
             IN  Out(done.users, done.posts, issued, 1,
                     RedirectResponse("/profile/{current_username}"))
        ELSE LET done == RenameSweep(stop, st, current_username, new_username,
                                     update_data)
             IN  IF stop < RenameUpdates
                 THEN Out(done.users, done.posts, issued, stop,
                          Unhandled("PyMongoError"))
                 ELSE Out(done.users, done.posts, issued \cup {token}, stop,
                          RedirectWithCookie("/profile/{new_username}",
                                             "access_token", token))

\* edit_profile, whose store client fails after `stop` updates went through
\* (stop = RenameUpdates: none fails).  email and password are None when the
\* form leaves them out.
edit_profile_result(cookie, new_username, email, password, stop) ==
    LET current_username == get_current_user(cookie)
        renamed == new_username # current_username
        existing == FindOne(users, LAMBDA d : d.username = new_username)
        update_data == [username |-> IF renamed THEN new_username ELSE None,
                        email |-> email,
                        password |-> IF password # None
                                     THEN hash_password(password) ELSE None]
        st == [users |-> users, posts |-> posts]
        token == create_access_token(new_username, None)
    IN  IF current_username = None THEN NoWrite(HTTPException("401"))
        ELSE IF renamed /\ existing # 0
        THEN NoWrite(TemplateResponse("edit_profile.html",
                         "Username already taken", current_username, None))
        ELSE IF ~renamed /\ email = None /\ password = None
        THEN NoWrite(RedirectResponse("/profile/{current_username}"))
        ELSE IF UpdateCollides(current_username, update_data)
        THEN NoWrite(Unhandled("DuplicateKeyError"))
        ELSE IF ~renamed
        THEN LET done == RenameSweep(1, st, current_username, new_username,
                                     update_data)
             IN  Out(done.users, done.posts, issued, 1,
                     RedirectResponse("/profile/{current_username}"))
        ELSE LET done == RenameSweep(stop, st, current_username, new_username,
                                     update_data)
             IN  IF stop < RenameUpdates
                 THEN Out(done.users, done.posts, issued, stop,
                          Unhandled("PyMongoError"))
                 ELSE Out(done.users, done.posts, issued \cup {token}, stop,
                          RedirectWithCookie("/profile/{new_username}",
                                             "access_token", token))

edit_profile(cookie, new_username, email, password) ==
    Commit("edit_profile", cookie, 0, new_username, email,
           edit_profile_result(cookie, new_username, email, password,
                               RenameUpdates))

\* edit_profile of a changed username that an error of the store client
\* ends after k of its updates: nothing catches it and nothing is undone.
edit_profile_interrupted(cookie, new_username, email, password, k) ==
    /\ edit_profile_result(cookie, new_username, email, password, k).resp
           = Unhandled("PyMongoError")
    /\ Commit("edit_profile", cookie, 0, new_username, email,
              edit_profile_result(cookie, new_username, email, password, k))

\* ------------------- signed-token application: requests between awaits
\* register and a renaming edit_profile issue several store operations,
\* each awaited: other requests run between two of them.  A request that
\* has issued an operation and not yet answered waits in `inflight`.
MaxInflight == 2

Slots == 1 .. MaxInflight

FreeSlot == Min(Slots \ DOMAIN inflight)

\* The request starts waiting for its next store operation.
Suspend(request) ==
    /\ impl = "signed"
    /\ budget > 0
    /\ Slots \ DOMAIN inflight # {}
    /\ inflight' = [s \in DOMAIN inflight \cup {FreeSlot} |->
                       IF s = FreeSlot THEN request ELSE inflight[s]]
    /\ budget' = budget - 1
    /\ UNCHANGED <<impl, observed, last, jar>>

\* The waiting request issues a store operation and goes on waiting.
Proceed(s, request) ==
    /\ inflight' = [inflight EXCEPT ![s] = request]
    /\ UNCHANGED <<impl, observed, last, budget, jar>>

\* The waiting request is answered.
Respond(s, record) ==
    /\ inflight' = [t \in DOMAIN inflight \ {s} |-> inflight[t]]
    /\ last' = IF record.op \in observed THEN record ELSE NoRequest
    /\ jar' = Received(record)
    /\ UNCHANGED <<impl, observed, budget>>

\* register up to its first await: find_one.
register_find(username, email, password) ==
    LET existing_user == FindOne(users, LAMBDA d :
                             d.username = username \/ d.email = email)
    IN  IF existing_user # 0
        THEN Commit("register", NoToken, 0, username, email,
                    register_result(username, email, password))
        ELSE /\ Suspend([op |-> "register", pc |-> 0, cookie |-> NoToken,
                         old |-> None, name |-> username, email |-> email,
                         doc |-> NewUser(username, email, password)])
             /\ UNCHANGED <<store, issued, uploads, created_by>>

\* register after its find_one: insert_one.
register_insert(s) ==
    /\ s \in DOMAIN inflight
    /\ inflight[s].op = "register"
    /\ LET r == inflight[s]
           out == insert_user_result(r.doc)
       IN  /\ Write(out)
           /\ Respond(s, Answered("register", NoToken, 0, r.name, r.email,
                                  out.steps, out.resp, {}))

\* edit_profile of a changed username up to its first await: find_one.
edit_profile_find(cookie, new_username, email, password) ==
    LET current_username == get_current_user(cookie)
        existing == FindOne(users, LAMBDA d : d.username = new_username)
    IN  /\ current_username # None
        /\ new_username # current_username
        /\ IF existing # 0
           THEN Commit("edit_profile", cookie, 0, new_username, email,
                       edit_profile_result(cookie, new_username, email,
                                           password, RenameUpdates))
           ELSE /\ Suspend([op |-> "edit_profile", pc |-> 0, cookie |-> cookie,
                            old |-> current_username, name |-> new_username,
                            email |-> email,
                            doc |-> [username |-> new_username, email |-> email,
                                     password |-> IF password # None
                                                  THEN hash_password(password)
                                                  ELSE None]])
                /\ UNCHANGED <<store, issued, uploads, created_by>>

\* edit_profile of a changed username: its next store update.
edit_profile_update(s) ==
    /\ s \in DOMAIN inflight
    /\ inflight[s].op = "edit_profile"
    /\ LET r == inflight[s]
           n == r.pc + 1
           st == RenameUpdate(n, [users |-> users, posts |-> posts],
                              r.old, r.name, r.doc)
           token == create_access_token(r.name, None)
       IN  IF n = 1 /\ UpdateCollides(r.old, r.doc)
           THEN /\ Write(NoWrite(Unhandled("DuplicateKeyError")))
                /\ Respond(s, Answered("edit_profile", r.cookie, 0, r.name,
                                       r.email, 0,
                                       Unhandled("DuplicateKeyError"), {}))
           ELSE IF n < RenameUpdates
           THEN /\ Write(Out(st.users, st.posts, issued, n, None))
                /\ Proceed(s, [r EXCEPT !.pc = n])
           ELSE /\ Write(Out(st.users, st.posts, issued \cup {token}, n, None))
                /\ Respond(s, Answered("edit_profile", r.cookie, 0, r.name,
                               r.email, n,
                               RedirectWithCookie("/profile/{new_username}",
                                                  "access_token", token), {}))

\* follow_user up to its second await: the session user's following list
\* is updated, the target's followers list is not yet.
follow_user_first(cookie, username) ==
    LET current_user == get_current_user(cookie)
    IN  IF current_user = None \/ current_user = username
        THEN follow_user(cookie, username)
        ELSE /\ Write(Out(UpdateOne(users,
                              LAMBDA d : d.username = current_user,
                              LAMBDA d : [d EXCEPT !.following =
                                              AddToSet(@, username)]),
                          posts, issued, 1, None))
             /\ Suspend([op |-> "follow_user", pc |-> 1, cookie |-> cookie,
                         old |-> current_user, name |-> username])

\* follow_user: its second update, and the redirect.
follow_user_second(s) ==
    /\ s \in DOMAIN inflight
    /\ inflight[s].op = "follow_user"
    /\ LET r == inflight[s]
       IN  /\ Write(Out(UpdateOne(users, LAMBDA d : d.username = r.name,
                            LAMBDA d : [d EXCEPT !.followers =
                                            AddToSet(@, r.old)]),
                        posts, issued, 2, None))
           /\ Respond(s, Answered("follow_user", r.cookie, 0, r.name, None, 2,
                                  RedirectResponse("/profile/{username}"), {}))

\* unfollow_user up to its second await.
unfollow_user_first(cookie, username) ==
    LET current_user == get_current_user(cookie)
    IN  IF current_user = None
        THEN unfollow_user(cookie, username)
        ELSE /\ Write(Out(UpdateOne(users,
                              LAMBDA d : d.username = current_user,
                              LAMBDA d : [d EXCEPT !.following =
                                              Pull(@, username)]),
                          posts, issued, 1, None))
             /\ Suspend([op |-> "unfollow_user", pc |-> 1, cookie |-> cookie,
                         old |-> current_user, name |-> username])

\* unfollow_user: its second update, and the redirect.
unfollow_user_second(s) ==
    /\ s \in DOMAIN inflight
    /\ inflight[s].op = "unfollow_user"
    /\ LET r == inflight[s]
       IN  /\ Write(Out(UpdateOne(users, LAMBDA d : d.username = r.name,
                            LAMBDA d : [d EXCEPT !.followers =
                                            Pull(@, r.old)]),
                        posts, issued, 2, None))
           /\ Respond(s, Answered("unfollow_user", r.cookie, 0, r.name, None, 2,
                                  RedirectResponse("/profile/{username}"), {}))

\* like_post up to its second await: find_one has read the post.
like_post_find(cookie, post_id) ==
    LET username == get_current_user(cookie)
    IN  IF username = None \/ post_id \notin DOMAIN posts
        THEN like_post(cookie, post_id)
        ELSE /\ Suspend([op |-> "like_post", pc |-> 1, cookie |-> cookie,
                         old |-> username, id |-> post_id,
                         read |-> posts[post_id].likes])
             /\ UNCHANGED <<store, issued, uploads, created_by>>

\* like_post: the update chosen from the likes array it read, and the
\* redirect.
like_post_update(s) ==
    /\ s \in DOMAIN inflight
    /\ inflight[s].op = "like_post"
    /\ LET r == inflight[s]
       IN  /\ Write(Out(users,
                        IF r.id \in DOMAIN posts
                        THEN [posts EXCEPT ![r.id].likes =
                                 ToggleLike(r.read, @, r.old)]
                        ELSE posts,
                        issued, 1, None))
           /\ Respond(s, Answered("like_post", r.cookie, r.id, None, None, 1,
                                  RedirectResponse("/posts/{post_id}"),
                                  Range(r.read)))

\* -------------------------------- signed-token application: page views
\* GET handlers: they read the store and render, or refuse.
\* The limit of every feed query.
FeedLimit == 100

\* .limit(n).to_list(n): the first n documents.
Limit(shown, n) == SubSeq(shown, 1, IF Len(shown) < n THEN Len(shown) ELSE n)

\* Does sort key a come before sort key b, or tie with it, under
\* {"like_count": -1, "timestamp": -1}?
ComesFirst(a, b) ==
    \/ a.like_count > b.like_count
    \/ a.like_count = b.like_count /\ a.timestamp >= b.timestamp

\* find(...).sort(...): the _ids in `found`, in descending order of key.
RECURSIVE SortDescending(_, _)
SortDescending(found, key) ==
    IF found = {} THEN << >>
    ELSE LET top == CHOOSE x \in found :
                        \A y \in found : ComesFirst(key[x], key[y])
         IN  <<top>> \o SortDescending(found \ {top}, key)

\* .sort("timestamp", -1): all posts count alike.
ByTimestamp ==
    [p \in DOMAIN posts |->
        [like_count |-> 0, timestamp |-> posts[p].timestamp]]

\* {"$addFields": {"like_count": {"$size": "$likes"}}}
ByLikesThenTimestamp ==
    [p \in DOMAIN posts |->
        [like_count |-> Len(posts[p].likes), timestamp |-> posts[p].timestamp]]

\* datetime.utcnow() - timedelta(days=1): the requests of a run fall within
\* one day, before any post's timestamp.
yesterday == 0

\* The posts feed queries for the session user: their _ids as shown.
feed_posts(username, following, filter) ==
    IF filter = "following"
    THEN Limit(SortDescending({p \in DOMAIN posts :
                                  posts[p].author \in
                                      Range(following) \cup {username}},
                              ByTimestamp), FeedLimit)
    ELSE IF filter = "popular"
    THEN Limit(SortDescending(DOMAIN posts, ByLikesThenTimestamp), FeedLimit)
    ELSE IF filter = "recent"
    THEN Limit(SortDescending({p \in DOMAIN posts :
                                  posts[p].timestamp >= yesterday},
                              ByTimestamp), FeedLimit)
    ELSE Limit(SortDescending(DOMAIN posts, ByTimestamp), FeedLimit)

\* user = find_one(...) is None for a username no record holds, and
\* user.get raises AttributeError.
feed_result(cookie, filter) ==
    LET username == get_current_user(cookie)
        user == FindOne(users, LAMBDA d : d.username = username)
    IN  IF username = None THEN NoWrite(RedirectResponse("/login"))
        ELSE IF user = 0 THEN NoWrite(Unhandled("AttributeError"))
        ELSE NoWrite(FeedPage(username,
                 feed_posts(username, users[user].following, filter)))

feed(cookie, filter) ==
    Commit("feed", cookie, 0, filter, None, feed_result(cookie, filter))

search_result(cookie) ==
    LET username == get_current_user(cookie)
    IN  IF username = None THEN NoWrite(RedirectResponse("/login"))
        ELSE NoWrite(TemplateResponse("search_results.html", None,
                                      username, None))

search(cookie) == Commit("search", cookie, 0, None, None, search_result(cookie))

view_post_result(cookie, post_id) ==
    LET username == get_current_user(cookie)
    IN  IF username = None THEN NoWrite(RedirectResponse("/login"))
        ELSE IF post_id \notin DOMAIN posts THEN NoWrite(HTTPException("404"))
        ELSE NoWrite(TemplateResponse("post_detail.html", None, username, None))

view_post(cookie, post_id) ==
    Commit("view_post", cookie, post_id, None, None,
           view_post_result(cookie, post_id))

edit_post_page_result(cookie, post_id) ==
    LET username == get_current_user(cookie)
    IN  IF username = None THEN NoWrite(RedirectResponse("/login"))
        ELSE IF post_id \notin DOMAIN posts THEN NoWrite(HTTPException("404"))
        ELSE IF ~IsAuthor(posts[post_id], username)
        THEN NoWrite(HTTPException("403"))
        ELSE NoWrite(TemplateResponse("edit_post.html", None, username, None))

edit_post_page(cookie, post_id) ==
    Commit("edit_post_page", cookie, post_id, None, None,
           edit_post_page_result(cookie, post_id))

profile_result(cookie, username) ==
    LET current_user == get_current_user(cookie)
        user == FindOne(users, LAMBDA d : d.username = username)
    IN  IF current_user = None THEN NoWrite(RedirectResponse("/login"))
        ELSE IF user = 0 THEN NoWrite(HTTPException("404"))
        ELSE NoWrite(TemplateResponse("profile.html", None, current_user, None))

profile(cookie, username) ==
    Commit("profile", cookie, 0, username, None,
           profile_result(cookie, username))

edit_profile_page_result(cookie) ==
    LET username == get_current_user(cookie)
        user == FindOne(users, LAMBDA d : d.username = username)
    IN  IF username = None THEN NoWrite(RedirectResponse("/login"))
        ELSE IF user = 0 THEN NoWrite(HTTPException("404"))
        ELSE NoWrite(TemplateResponse("edit_profile.html", None, username,
                                      users[user].email))

edit_profile_page(cookie) ==
    Commit("edit_profile_page", cookie, 0, None, None,
           edit_profile_page_result(cookie))

\* ------------------------- signed-token application: profile picture
allowed_types == {"image/jpeg", "image/png", "image/jpg", "image/gif",
                  "image/webp"}

\* save_upload_file: the path of the stored file, under a name (uuid4) no
\* stored file has.
save_upload_file(upload_dir) ==
    "/static/uploads/" \o upload_dir \o "/" \o ToString(Cardinality(uploads) + 1)

\* An upload handler that stores the file before it looks at its type.
upload_profile_picture_result_save_first(cookie, content_type) ==
    LET username == get_current_user(cookie)
    IN  IF username = None THEN NoWrite(HTTPException("401"))
        ELSE IF content_type \notin allowed_types
        THEN [NoWrite(HTTPException("400"))
              EXCEPT !.file = save_upload_file("profiles")]
        ELSE [Out(UpdateOne(users, LAMBDA d : d.username = username,
                      LAMBDA d : [d EXCEPT !.profile_pic =
                                      save_upload_file("profiles")]),
                  posts, issued, 1, RedirectResponse("/profile/{username}"))
              EXCEPT !.file = save_upload_file("profiles")]

upload_profile_picture_result(cookie, content_type) ==
    LET username == get_current_user(cookie)
    IN  IF username = None THEN NoWrite(HTTPException("401"))
        ELSE IF content_type \notin allowed_types
        THEN NoWrite(HTTPException("400"))
        ELSE [Out(UpdateOne(users, LAMBDA d : d.username = username,
                      LAMBDA d : [d EXCEPT !.profile_pic =
                                      save_upload_file("profiles")]),
                  posts, issued, 1, RedirectResponse("/profile/{username}"))
              EXCEPT !.file = save_upload_file("profiles")]

upload_profile_picture(cookie, content_type) ==
    Commit("upload_profile_picture", cookie, 0, content_type, None,
           upload_profile_picture_result(cookie, content_type))

\* ------------------------------------ signed-token application: admin
ADMIN_USERNAME == "admin"

ADMIN_PASSWORD_HASH == hash_password("adminpw")

admin_login_result(username, password) ==
    LET token == create_access_token(username, "admin")
    IN  IF username # ADMIN_USERNAME
           \/ ~verify_password(password, ADMIN_PASSWORD_HASH)
        THEN NoWrite(HTTPException("401"))
        ELSE Out(users, posts, issued \cup {token}, 0,
                 RedirectWithCookie("/admin/dashboard", "admin_token", token))

admin_login(username, password) ==
    Commit("admin_login", NoToken, 0, username, None,
           admin_login_result(username, password))

\* May the bearer of this admin_token cookie see the dashboard?
IsAdmin(cookie) ==
    cookie.sig # "absent" /\ decode_token(cookie).role = "admin"

admin_dashboard_result(cookie) ==
    IF ~IsAdmin(cookie) THEN NoWrite(RedirectResponse("/admin/login"))
    ELSE NoWrite(TemplateResponse("admin_dashboard.html", None,
                                  decode_token(cookie).sub, None))

admin_dashboard(cookie) ==
    Commit("admin_dashboard", cookie, 0, None, None,
           admin_dashboard_result(cookie))

\* The test the two deleting admin routes make of the admin_token cookie:
\* `if not token`.
HasAdminCookie(cookie) == cookie.sig # "absent"

\* delete_one({"_id": ObjectId(user_id)}), then
\* delete_many({"author": user_id}): the author field holds usernames, the
\* filter compares it with the text of the _id.
admin_delete_user_result(cookie, user_id) ==
    IF ~HasAdminCookie(cookie) THEN NoWrite(HTTPException("401"))
    ELSE Out(IF user_id \in DOMAIN users THEN DeleteOne(users, user_id)
             ELSE users,
             DeleteMany(posts, LAMBDA d : d.author = ObjectIdStr(user_id)),
             issued, 2, RedirectResponse("/admin/dashboard"))

admin_delete_user(cookie, user_id) ==
    Commit("admin_delete_user", cookie, user_id, None, None,
           admin_delete_user_result(cookie, user_id))

admin_delete_post_result(cookie, post_id) ==
    IF ~HasAdminCookie(cookie) THEN NoWrite(HTTPException("401"))
    ELSE Out(users,
             IF post_id \in DOMAIN posts THEN DeleteOne(posts, post_id)
             ELSE posts,
             issued, 1, RedirectResponse("/admin/dashboard"))

admin_delete_post(cookie, post_id) ==
    Commit("admin_delete_post", cookie, post_id, None, None,
           admin_delete_post_result(cookie, post_id))

\* ------------------------------------------ plaintext-cookie application
\* The handlers of src/main.py call the blocking store client from
\* coroutines that never await: each request runs to its response before
\* the event loop takes up the next one.
NoWritePlain(resp) == Out(users_collection, posts_collection, issued, 0, resp)

CommitPlain(op, cookie, id, name, out) ==
    /\ impl = "plain"
    /\ next_user_id \in DOMAIN out.users => next_user_id <= MaxUsers
    /\ next_post_id \in DOMAIN out.posts => next_post_id <= PostBound
    /\ users_collection' = out.users
    /\ posts_collection' = out.posts
    /\ next_user_id' = IF next_user_id \in DOMAIN out.users
                       THEN next_user_id + 1 ELSE next_user_id
    /\ next_post_id' = IF next_post_id \in DOMAIN out.posts
                       THEN next_post_id + 1 ELSE next_post_id
    /\ issued' = out.issued
    /\ UNCHANGED <<users, posts, uploads, created_by>>
    /\ Answer(Answered(op, cookie, id, name, None, out.steps, out.resp,
                       LikedBy(posts_collection, id)))

\* The check signup makes before it inserts.
UsernameRegistered(username) ==
    FindOne(users_collection, LAMBDA d : d.username = username) # 0

signup_result(username, password) ==
    IF UsernameRegistered(username) THEN NoWritePlain(HTTPException("400"))
    ELSE Out(InsertOne(users_collection, next_user_id,
                       [username |-> username, password |-> password]),
             posts_collection, issued, 1, RedirectResponse("/login"))

signup(username, password) ==
    CommitPlain("signup", NoToken, 0, username, signup_result(username, password))

login_plain_result(username, password) ==
    LET user == FindOne(users_collection, LAMBDA d : d.username = username)
    IN  IF user = 0 \/ users_collection[user].password # password
        THEN NoWritePlain(HTTPException("400"))
        ELSE Out(users_collection, posts_collection,
                 issued \cup {RawCookie(username)}, 0,
                 RedirectWithCookie("/", "username", RawCookie(username)))

login_plain(username, password) ==
    CommitPlain("login", NoToken, 0, username,
                login_plain_result(username, password))

logout_plain_result == NoWritePlain(RedirectDeletingCookie("/", "username"))

logout_plain ==
    CommitPlain("logout", jar["username"], 0, None, logout_plain_result)

create_post_plain_result(cookie, content) ==
    LET user == get_current_user_plain(cookie)
    IN  IF user = 0 THEN NoWritePlain(RedirectResponse("/login"))
        ELSE Out(users_collection,
                 InsertOne(posts_collection, next_post_id,
                           [author |-> users_collection[user].username,
                            content |-> content, photo |-> None,
                            likes |-> << >>, comments |-> << >>,
                            timestamp |-> ""]),
                 issued, 1, RedirectResponse("/"))

create_post_plain(cookie, content) ==
    CommitPlain("create_post", cookie, 0, None,
                create_post_plain_result(cookie, content))

\* `not user or user["username"] != post["author"]`: a missing user answers
\* 403 before the post is looked at; a missing post then raises TypeError.
edit_post_plain_result(cookie, post_id, content) ==
    LET user == get_current_user_plain(cookie)
    IN  IF user = 0 THEN NoWritePlain(HTTPException("403"))
        ELSE IF post_id \notin DOMAIN posts_collection
        THEN NoWritePlain(Unhandled("TypeError"))
        ELSE IF ~IsAuthor(posts_collection[post_id],
                          users_collection[user].username)
        THEN NoWritePlain(HTTPException("403"))
        ELSE Out(users_collection,
                 [posts_collection EXCEPT ![post_id].content = content],
                 issued, 1, RedirectResponse("/"))

edit_post_plain(cookie, post_id, content) ==
    CommitPlain("edit_post", cookie, post_id, content,
                edit_post_plain_result(cookie, post_id, content))

delete_post_plain_result(cookie, post_id) ==
    LET user == get_current_user_plain(cookie)
    IN  IF user = 0 THEN NoWritePlain(HTTPException("403"))
        ELSE IF post_id \notin DOMAIN posts_collection
        THEN NoWritePlain(Unhandled("TypeError"))
        ELSE IF ~IsAuthor(posts_collection[post_id],
                          users_collection[user].username)
        THEN NoWritePlain(HTTPException("403"))
        ELSE Out(users_collection, DeleteOne(posts_collection, post_id),
                 issued, 1, RedirectResponse("/"))

delete_post_plain(cookie, post_id) ==
    CommitPlain("delete_post", cookie, post_id, None,
                delete_post_plain_result(cookie, post_id))

\* The update main.py like_post issues after reading the likes array.
ToggleLikePlain(read, array, username) ==
    IF username \in Range(read) THEN Pull(array, username)
    ELSE Push(array, username)

like_post_plain_result(cookie, post_id) ==
    LET user == get_current_user_plain(cookie)
    IN  IF user = 0 THEN NoWritePlain(RedirectResponse("/login"))
        ELSE IF post_id \notin DOMAIN posts_collection
        THEN NoWritePlain(Unhandled("TypeError"))
        ELSE Out(users_collection,
                 [posts_collection EXCEPT ![post_id].likes =
                     ToggleLikePlain(posts_collection[post_id].likes, @,
                                     users_collection[user].username)],
                 issued, 1, RedirectResponse("/"))

like_post_plain(cookie, post_id) ==
    CommitPlain("like_post", cookie, post_id, None,
                like_post_plain_result(cookie, post_id))

comment_on_post_result(cookie, post_id, text) ==
    LET user == get_current_user_plain(cookie)
    IN  IF user = 0 THEN NoWritePlain(RedirectResponse("/login"))
        ELSE Out(users_collection,
                 IF post_id \in DOMAIN posts_collection
                 THEN [posts_collection EXCEPT ![post_id].comments =
                          Push(@, [author |-> users_collection[user].username,
                                   text |-> text])]
                 ELSE posts_collection,
                 issued, 1, RedirectResponse("/"))

comment_on_post(cookie, post_id, text) ==
    CommitPlain("comment_on_post", cookie, post_id, text,
                comment_on_post_result(cookie, post_id, text))


\* GET /profile of the plaintext-cookie application.
profile_plain_result(cookie) ==
    LET user == get_current_user_plain(cookie)
    IN  IF user = 0 THEN NoWritePlain(RedirectResponse("/login"))
        ELSE NoWritePlain(TemplateResponse("profile.html", None,
                              users_collection[user].username, None))

profile_plain(cookie) ==
    CommitPlain("profile", cookie, 0, None, profile_plain_result(cookie))

\* GET /posts/{post_id}/edit of the plaintext-cookie application: the post
\* is looked up first, and its author is read only for a known user.
edit_post_form_result(cookie, post_id) ==
    LET user == get_current_user_plain(cookie)
    IN  IF user = 0 THEN NoWritePlain(HTTPException("403"))
        ELSE IF post_id \notin DOMAIN posts_collection
        THEN NoWritePlain(Unhandled("TypeError"))
        ELSE IF ~IsAuthor(posts_collection[post_id],
                          users_collection[user].username)
        THEN NoWritePlain(HTTPException("403"))
        ELSE NoWritePlain(TemplateResponse("edit_post.html", None, None, None))

edit_post_form(cookie, post_id) ==
    CommitPlain("edit_post_form", cookie, post_id, None,
                edit_post_form_result(cookie, post_id))

PostIds == 1 .. MaxPosts

UserIds == 1 .. MaxUsers

\* An email address no user record holds (one always exists while a
\* registration can still succeed).
UnusedEmail ==
    LET free == {e \in Emails : \A i \in DOMAIN users : users[i].email # e}
    IN  IF free = {} THEN "e1" ELSE CHOOSE e \in free : TRUE

\* ------------------------------------------------------- specifications
\* The signed-token application with its rename sweep: accounts, sessions,
\* the follow graph, one user's posts with likes and comments.
NextRename ==
    \/ \E n \in Names : register(n, UnusedEmail, "p1")
    \/ \E n \in Names : login(n, "p1")
    \/ \E c \in issued, n \in Names : follow_user(c, n)
    \/ \E c \in issued : create_post(c, "t1")
    \/ \E c \in issued, p \in PostIds : like_post(c, p)
    \/ \E c \in issued, p \in PostIds : add_comment(c, p, "t1")
    \/ \E c \in issued, n \in Names : edit_profile(c, n, None, None)
    \/ \E c \in issued, n \in Names, k \in 1 .. RenameUpdates - 1 :
           edit_profile_interrupted(c, n, None, None, k)

RenameRequests == 7

InitRename ==
    /\ impl = "signed"
    /\ observed = {"edit_profile"}
    /\ budget = RenameRequests
    /\ InitStore

SpecRename == InitRename /\ [][NextRename]_vars

\* One account's posts and likes under renames, with sessions that outlive
\* the name they were issued for.
NextLikes ==
    \/ \E n \in Names : register(n, UnusedEmail, "p1")
    \/ \E n \in Names : login(n, "p1")
    \/ \E c \in issued : create_post(c, "t1")
    \/ \E c \in issued, p \in PostIds : like_post(c, p)
    \/ \E c \in issued, n \in Names : edit_profile(c, n, None, None)

LikesRequests == 8

InitLikes ==
    /\ impl = "signed"
    /\ observed = {"edit_profile"}
    /\ budget = LikesRequests
    /\ InitStore

SpecLikes == InitLikes /\ [][NextLikes]_vars

\* Posts and likes in both applications: accounts, sessions, renames, and
\* every request to edit, delete or like a post.
NextPosts ==
    \/ \E n \in Names : register(n, UnusedEmail, "p1")
    \/ \E n \in Names : login(n, "p1")
    \/ \E c \in issued : create_post(c, "t1")
    \/ \E c \in issued, p \in PostIds, t \in Contents : edit_post(c, p, t)
    \/ \E c \in issued, p \in PostIds : delete_post(c, p)
    \/ \E c \in issued, p \in PostIds : like_post(c, p)
    \/ \E c \in issued, n \in Names : edit_profile(c, n, None, None)
    \/ \E n \in Names : signup(n, "p1")
    \/ \E c \in RawCookies : create_post_plain(c, "t1")
    \/ \E c \in RawCookies, p \in PostIds, t \in Contents :
           edit_post_plain(c, p, t)
    \/ \E c \in RawCookies, p \in PostIds : delete_post_plain(c, p)
    \/ \E c \in RawCookies, p \in PostIds : like_post_plain(c, p)

PostsRequests == 7

InitPosts ==
    /\ impl \in {"signed", "plain"}
    /\ observed = {"edit_post", "delete_post", "like_post"}
    /\ budget = PostsRequests
    /\ InitStore

SpecPosts == InitPosts /\ [][NextPosts]_vars

\* Accounts of the signed-token application: registration, login, and
\* profile edits that change the username, the email or the password.
NextAccounts ==
    \/ \E n \in Names, e \in Emails : register(n, e, "p1")
    \/ \E n \in Names, pw \in Passwords : login(n, pw)
    \/ \E c \in issued, n \in Names, e \in Emails \cup {None},
          pw \in {None, "p2"} : edit_profile(c, n, e, pw)

AccountsRequests == 6

InitAccounts ==
    /\ impl = "signed"
    /\ observed = {"register", "edit_profile"}
    /\ budget = AccountsRequests
    /\ InitStore

SpecAccounts == InitAccounts /\ [][NextAccounts]_vars

\* The admin routes of the signed-token application, next to the accounts
\* and posts they delete.
NextAdmin ==
    \/ \E n \in Names : register(n, UnusedEmail, "p1")
    \/ \E n \in Names : login(n, "p1")
    \/ \E c \in issued : create_post(c, "t1")
    \/ \E n \in {ADMIN_USERNAME, "a"}, pw \in {"adminpw", "p1"} :
           admin_login(n, pw)
    \/ \E c \in Cookies : admin_dashboard(c)
    \/ \E c \in Cookies, i \in UserIds : admin_delete_user(c, i)
    \/ \E c \in Cookies, p \in PostIds : admin_delete_post(c, p)

AdminRequests == 5

InitAdmin ==
    /\ impl = "signed"
    /\ observed = {"admin_dashboard", "admin_delete_user", "admin_delete_post"}
    /\ budget = AdminRequests
    /\ InitStore

SpecAdmin == InitAdmin /\ [][NextAdmin]_vars

\* Every handler that needs a logged-in user, in both applications, asked
\* with and without a session.
NextSessions ==
    \/ \E n \in {"a", "b"} : register(n, UnusedEmail, "p1")
    \/ \E n \in {"a", "b"} : login(n, "p1")
    \/ \E c \in Cookies : feed(c, None)
    \/ \E c \in Cookies : search(c)
    \/ \E c \in Cookies, p \in PostIds : view_post(c, p)
    \/ \E c \in Cookies, p \in PostIds : edit_post_page(c, p)
    \/ \E c \in Cookies, n \in {"a", "b"} : profile(c, n)
    \/ \E c \in Cookies : edit_profile_page(c)
    \/ \E c \in Cookies : create_post(c, "t1")
    \/ \E c \in Cookies, p \in PostIds : like_post(c, p)
    \/ \E c \in Cookies, p \in PostIds : add_comment(c, p, "t1")
    \/ \E c \in Cookies, p \in PostIds : edit_post(c, p, "t2")
    \/ \E c \in Cookies, p \in PostIds : delete_post(c, p)
    \/ \E c \in Cookies, n \in {"a", "b"} : follow_user(c, n)
    \/ \E c \in Cookies, n \in {"a", "b"} : unfollow_user(c, n)
    \/ \E c \in Cookies, t \in {"image/png", "text/html"} :
           upload_profile_picture(c, t)
    \/ \E c \in Cookies, n \in {"a", "b"} : edit_profile(c, n, None, "p2")
    \/ \E n \in {"a", "b"} : signup(n, "p1")
    \/ \E n \in {"a", "b"}, pw \in Passwords : login_plain(n, pw)
    \/ \E c \in RawCookies : profile_plain(c)
    \/ \E c \in RawCookies : create_post_plain(c, "t1")
    \/ \E c \in RawCookies, p \in PostIds : edit_post_form(c, p)
    \/ \E c \in RawCookies, p \in PostIds : edit_post_plain(c, p, "t2")
    \/ \E c \in RawCookies, p \in PostIds : delete_post_plain(c, p)
    \/ \E c \in RawCookies, p \in PostIds : like_post_plain(c, p)
    \/ \E c \in RawCookies, p \in PostIds : comment_on_post(c, p, "t1")

SessionsRequests == 5

\* The operations that answer only a logged-in user.
PageOps == {"feed", "search", "view_post", "edit_post_page", "profile",
            "edit_profile_page", "edit_post_form"}

MutatingOps == {"create_post", "like_post", "add_comment", "comment_on_post",
                "edit_post", "delete_post", "follow_user", "unfollow_user",
                "upload_profile_picture", "edit_profile"}

InitSessions ==
    /\ impl \in {"signed", "plain"}
    /\ observed = PageOps \cup MutatingOps
    /\ budget = SessionsRequests
    /\ InitStore

SpecSessions == InitSessions /\ [][NextSessions]_vars

OverlapNames == {"a", "b"}

\* Registrations and renames that overlap: the requests of the
\* signed-token application interleave at every store operation, those of
\* the plaintext-cookie application run one after the other.
NextOverlap ==
    \/ \E n \in OverlapNames, e \in Emails : register_find(n, e, "p1")
    \/ \E s \in Slots : register_insert(s)
    \/ \E n \in OverlapNames : login(n, "p1")
    \/ \E c \in issued, n \in OverlapNames, e \in Emails \cup {None} :
           edit_profile_find(c, n, e, None)
    \/ \E s \in Slots : edit_profile_update(s)
    \/ \E n \in OverlapNames, pw \in Passwords : signup(n, pw)

OverlapRequests == 5

InitOverlap ==
    /\ impl \in {"signed", "plain"}
    /\ observed = {"register", "edit_profile"}
    /\ budget = OverlapRequests
    /\ InitStore

SpecOverlap == InitOverlap /\ [][NextOverlap]_vars

\* Profile pictures: accounts, sessions that outlive a rename, and uploads
\* of image and other content types.
UploadTypes == {"image/png", "image/webp", "text/html", "application/pdf"}

NextUpload ==
    \/ \E n \in Names : register(n, UnusedEmail, "p1")
    \/ \E n \in Names : login(n, "p1")
    \/ \E c \in issued, n \in Names : edit_profile(c, n, None, None)
    \/ \E c \in Cookies, t \in UploadTypes : upload_profile_picture(c, t)

UploadRequests == 6

InitUpload ==
    /\ impl = "signed"
    /\ observed = {"upload_profile_picture"}
    /\ budget = UploadRequests
    /\ InitStore

SpecUpload == InitUpload /\ [][NextUpload]_vars

\* The follow graph: accounts, sessions, and follow and unfollow requests
\* that interleave between their two updates.
NextFollow ==
    \/ \E n \in OverlapNames : register(n, UnusedEmail, "p1")
    \/ \E n \in OverlapNames : login(n, "p1")
    \/ \E c \in issued, n \in OverlapNames : follow_user_first(c, n)
    \/ \E s \in Slots : follow_user_second(s)
    \/ \E c \in issued, n \in OverlapNames : unfollow_user_first(c, n)
    \/ \E s \in Slots : unfollow_user_second(s)

FollowRequests == 6

InitFollow ==
    /\ impl = "signed"
    /\ observed = {"follow_user", "unfollow_user"}
    /\ budget = FollowRequests
    /\ InitStore

SpecFollow == InitFollow /\ [][NextFollow]_vars

\* A rename next to the requests that overlap it: every request of the
\* signed-token application is taken apart at its awaits.
NextRenameRace ==
    \/ \E n \in OverlapNames : register(n, UnusedEmail, "p1")
    \/ \E n \in OverlapNames : login(n, "p1")
    \/ \E c \in issued, n \in OverlapNames : edit_profile_find(c, n, None, None)
    \/ \E s \in Slots : edit_profile_update(s)
    \/ \E c \in issued : create_post(c, "t1")
    \/ \E c \in issued, p \in PostIds : like_post_find(c, p)
    \/ \E s \in Slots : like_post_update(s)
    \/ \E c \in issued, p \in PostIds : add_comment(c, p, "t1")
    \/ \E c \in issued, n \in OverlapNames : follow_user_first(c, n)
    \/ \E s \in Slots : follow_user_second(s)
    \/ \E c \in issued, n \in OverlapNames : unfollow_user_first(c, n)
    \/ \E s \in Slots : unfollow_user_second(s)

RenameRaceRequests == 5

InitRenameRace ==
    /\ impl = "signed"
    /\ observed = {"edit_profile"}
    /\ budget = RenameRaceRequests
    /\ InitStore

SpecRenameRace == InitRenameRace /\ [][NextRenameRace]_vars

\* Likes under overlap: like_post of the signed-token application is taken
\* apart at its awaits, like_post of the plaintext-cookie application runs
\* to its response.
NextLikeRace ==
    \/ \E n \in OverlapNames : register(n, UnusedEmail, "p1")
    \/ \E n \in OverlapNames : login(n, "p1")
    \/ \E c \in issued : create_post(c, "t1")
    \/ \E c \in issued, p \in PostIds : like_post_find(c, p)
    \/ \E s \in Slots : like_post_update(s)
    \/ \E n \in OverlapNames : signup(n, "p1")
    \/ \E c \in RawCookies : create_post_plain(c, "t1")
    \/ \E c \in RawCookies, p \in PostIds : like_post_plain(c, p)

LikeRaceRequests == 6

InitLikeRace ==
    /\ impl \in {"signed", "plain"}
    /\ observed = {"like_post"}
    /\ budget = LikeRaceRequests
    /\ InitStore

SpecLikeRace == InitLikeRace /\ [][NextLikeRace]_vars

\* Comments in both applications: accounts, sessions, up to two posts and
\* the comments on them.  A comment is one store update, so two comment
\* requests that overlap take effect in one order or the other.
NextComments ==
    \/ \E n \in OverlapNames : register(n, UnusedEmail, "p1")
    \/ \E n \in OverlapNames : login(n, "p1")
    \/ \E c \in issued : create_post(c, "t1")
    \/ \E c \in Cookies, p \in 1 .. MaxCommentedPosts, t \in Contents :
           add_comment(c, p, t)
    \/ \E n \in OverlapNames : signup(n, "p1")
    \/ \E c \in RawCookies : create_post_plain(c, "t1")
    \/ \E c \in RawCookies, p \in 1 .. MaxCommentedPosts, t \in Contents :
           comment_on_post(c, p, t)

CommentsRequests == 7

InitComments ==
    /\ impl \in {"signed", "plain"}
    /\ observed = {"add_comment", "comment_on_post"}
    /\ budget = CommentsRequests
    /\ InitStore

SpecComments == InitComments /\ [][NextComments]_vars

\* Who owns a post: accounts that are deleted by the admin, renamed and
\* registered again under a username another record held before, next to
\* the requests to edit and delete a post.
NextOwnership ==
    \/ \E n \in OverlapNames : register(n, UnusedEmail, "p1")
    \/ \E n \in OverlapNames : login(n, "p1")
    \/ \E c \in issued : create_post(c, "t1")
    \/ \E c \in issued, p \in PostIds : edit_post(c, p, "t2")
    \/ \E c \in issued, p \in PostIds : delete_post(c, p)
    \/ \E c \in issued, n \in OverlapNames : edit_profile(c, n, None, None)
    \/ admin_login(ADMIN_USERNAME, "adminpw")
    \/ \E c \in issued, i \in UserIds : admin_delete_user(c, i)

OwnershipRequests == 7

InitOwnership ==
    /\ impl = "signed"
    /\ observed = {"edit_post", "delete_post"}
    /\ budget = OwnershipRequests
    /\ InitStore

SpecOwnership == InitOwnership /\ [][NextOwnership]_vars

\* Edits and deletions next to what they must leave alone, in both
\* applications: accounts, sessions, up to two posts, their likes, and the
\* requests to edit and delete them.
NextEdits ==
    \/ \E n \in OverlapNames : register(n, UnusedEmail, "p1")
    \/ \E n \in OverlapNames : login(n, "p1")
    \/ \E c \in issued : create_post(c, "t1")
    \/ \E c \in issued, p \in 1 .. MaxCommentedPosts : like_post(c, p)
    \/ \E c \in issued, p \in 1 .. MaxCommentedPosts : edit_post(c, p, "t2")
    \/ \E c \in issued, p \in 1 .. MaxCommentedPosts : delete_post(c, p)
    \/ \E n \in OverlapNames : signup(n, "p1")
    \/ \E c \in RawCookies : create_post_plain(c, "t1")
    \/ \E c \in RawCookies, p \in 1 .. MaxCommentedPosts : like_post_plain(c, p)
    \/ \E c \in RawCookies, p \in 1 .. MaxCommentedPosts :
           edit_post_plain(c, p, "t2")
    \/ \E c \in RawCookies, p \in 1 .. MaxCommentedPosts :
           delete_post_plain(c, p)

EditsRequests == 7

InitEdits ==
    /\ impl \in {"signed", "plain"}
    /\ observed = {"create_post", "edit_post", "delete_post"}
    /\ budget = EditsRequests
    /\ InitStore

SpecEdits == InitEdits /\ [][NextEdits]_vars

\* Logging in and out, in both applications: accounts, the logins of one
\* browser with right and wrong passwords, its logouts, and the requests it
\* sends with the cookie it holds.
NextLogin ==
    \/ \E n \in OverlapNames : register(n, UnusedEmail, "p1")
    \/ \E n \in OverlapNames, pw \in Passwords : login(n, pw)
    \/ logout
    \/ feed(jar["access_token"], None)
    \/ create_post(jar["access_token"], "t1")
    \/ \E n \in OverlapNames : signup(n, "p1")
    \/ \E n \in OverlapNames, pw \in Passwords : login_plain(n, pw)
    \/ logout_plain
    \/ profile_plain(jar["username"])
    \/ create_post_plain(jar["username"], "t1")

LoginRequests == 6

InitLogin ==
    /\ impl \in {"signed", "plain"}
    /\ observed = {"login", "logout", "feed", "profile", "create_post"}
    /\ budget = LoginRequests
    /\ InitStore

SpecLogin == InitLogin /\ [][NextLogin]_vars

\* The feed: accounts, sessions that outlive a rename, follows, up to
\* three posts and their likes, and the feed asked with each filter.
Filters == {None, "following", "popular", "recent"}

NextFeed ==
    \/ \E n \in OverlapNames : register(n, UnusedEmail, "p1")
    \/ \E n \in OverlapNames : login(n, "p1")
    \/ \E c \in issued, n \in OverlapNames : follow_user(c, n)
    \/ \E c \in issued : create_post(c, "t1")
    \/ \E c \in issued, p \in 1 .. MaxFeedPosts : like_post(c, p)
    \/ \E c \in issued, n \in OverlapNames : edit_profile(c, n, None, None)
    \/ \E c \in issued, f \in Filters : feed(c, f)

FeedRequests == 8

InitFeed ==
    /\ impl = "signed"
    /\ observed = {"feed"}
    /\ budget = FeedRequests
    /\ InitStore

SpecFeed == InitFeed /\ [][NextFeed]_vars

\* ------------------------------------------------------------- claim C1
\* x with the username old replaced by new.
Renamed(x, old, new) == IF x = old THEN new ELSE x

RenamedArray(array, old, new) ==
    [i \in DOMAIN array |-> Renamed(array[i], old, new)]

\* Does the username occur in a post or in a follow list?
Occurs(username, u, p) ==
    \/ \E i \in DOMAIN p :
          \/ p[i].author = username
          \/ username \in Range(p[i].likes)
          \/ \E j \in DOMAIN p[i].comments : p[i].comments[j].username = username
    \/ \E i \in DOMAIN u :
          \/ username \in Range(u[i].followers)
          \/ username \in Range(u[i].following)

\* The step is a rename old -> new by edit_profile that issued all of its
\* store updates, for a session user whose record exists.
RenameCompleted(old, new) ==
    /\ Answers({"edit_profile"})
    /\ last'.steps = RenameUpdates
    /\ last'.cookie.sub = old
    /\ last'.name = new
    /\ \E i \in DOMAIN users : users[i].username = old

\* C1: once edit_profile with a changed username (old -> new) has executed
\* all of its store updates, with no other request in between, the old
\* username occurs nowhere (no post author, like, comment, followers or
\* following entry), every such occurrence holds new, and the user record
\* carries new.
C1_RenameLeavesNoOldUsername ==
    [][\A old \in Names, new \in Names :
          RenameCompleted(old, new) =>
             /\ ~Occurs(old, users', posts')
             /\ \A i \in DOMAIN posts :
                   /\ posts'[i].author = Renamed(posts[i].author, old, new)
                   /\ posts'[i].likes = RenamedArray(posts[i].likes, old, new)
                   /\ \A j \in DOMAIN posts[i].comments :
                         posts'[i].comments[j].username =
                             Renamed(posts[i].comments[j].username, old, new)
             /\ \A i \in DOMAIN users :
                   /\ users'[i].followers = RenamedArray(users[i].followers, old, new)
                   /\ users'[i].following = RenamedArray(users[i].following, old, new)
                   /\ users'[i].username = Renamed(users[i].username, old, new)
      ]_vars

\* ------------------------------------------------------------- claim C2
\* The step is a rename old -> new by edit_profile that stopped after k of
\* its store updates, for a session user whose record exists.
RenameInterrupted(old, new, k) ==
    /\ Answers({"edit_profile"})
    /\ last'.resp = Unhandled("PyMongoError")
    /\ last'.steps = k
    /\ last'.cookie.sub = old
    /\ last'.name = new
    /\ \E i \in DOMAIN users : users[i].username = old

\* The user record that was named old is now named new.
RecordCarries(old, new) ==
    \E i \in DOMAIN users : users[i].username = old /\ users'[i].username = new

\* Does the username occur in a field that the updates after the k-th
\* rewrite?
OccursAfter(k, username, u, p) ==
    \/ k < 2 /\ \E i \in DOMAIN p : p[i].author = username
    \/ k < 3 /\ \E i \in DOMAIN u : username \in Range(u[i].followers)
    \/ k < 4 /\ \E i \in DOMAIN u : username \in Range(u[i].following)
    \/ k < 5 /\ \E i \in DOMAIN p : username \in Range(p[i].likes)
    \/ k < 6 /\ \E i \in DOMAIN p : \E j \in DOMAIN p[i].comments :
                   p[i].comments[j].username = username

\* C2 as stated: a rename that stops after a proper, non-empty prefix of
\* its six updates leaves the user record with the new username while at
\* least one post author, like, comment or follower/following entry still
\* carries the old one.
C2_InterruptedRenameLeavesStaleEntry ==
    [][\A old \in Names, new \in Names, k \in 1 .. RenameUpdates - 1 :
          RenameInterrupted(old, new, k) =>
             /\ RecordCarries(old, new)
             /\ Occurs(old, users', posts')
      ]_vars

\* C2, amended: a rename that stops after a proper, non-empty prefix of its
\* six updates leaves the user record with the new username, undoes
\* nothing, and leaves every field the unexecuted updates rewrite exactly as
\* it was; so an entry with the old username remains in those fields
\* exactly when the user had one there.
C2_InterruptedRenameKeepsUnexecutedFields ==
    [][\A old \in Names, new \in Names, k \in 1 .. RenameUpdates - 1 :
          RenameInterrupted(old, new, k) =>
             /\ RecordCarries(old, new)
             /\ DOMAIN users' = DOMAIN users /\ DOMAIN posts' = DOMAIN posts
             /\ \A i \in DOMAIN posts :
                   /\ k < 2 => posts'[i].author = posts[i].author
                   /\ k < 5 => posts'[i].likes = posts[i].likes
                   /\ k < 6 => posts'[i].comments = posts[i].comments
             /\ \A i \in DOMAIN users :
                   /\ k < 3 => users'[i].followers = users[i].followers
                   /\ k < 4 => users'[i].following = users[i].following
             /\ OccursAfter(k, old, users', posts')
                    <=> OccursAfter(k, old, users, posts)
      ]_vars

\* An interrupted rename has left an entry with the old username behind.
C2_Witness ==
    /\ last.op = "edit_profile"
    /\ last.resp = Unhandled("PyMongoError")
    /\ last.steps \in 1 .. RenameUpdates - 1
    /\ \E i \in DOMAIN users : users[i].username = last.name
    /\ OccursAfter(last.steps, last.cookie.sub, users, posts)

\* ------------------------------------------------------- claims C3, C4
\* The collection of posts of the deployed application.
Posts == IF impl = "signed" THEN posts ELSE posts_collection

\* The username a session cookie authenticates in the deployed
\* application, None when it authenticates nobody.
SessionUser(cookie) ==
    IF impl = "signed" THEN get_current_user(cookie)
    ELSE IF get_current_user_plain(cookie) = 0 THEN None
    ELSE users_collection[get_current_user_plain(cookie)].username

\* C3: for every existing post P and every authenticated user U whose
\* username differs from P's author, edit_post and delete_post answer 403
\* and leave P (and every other post) unchanged, in both applications and
\* after any sequence of prior operations.
C3_OnlyTheAuthorEditsOrDeletes ==
    [][(/\ Answers({"edit_post", "delete_post"})
        /\ last'.id \in DOMAIN Posts
        /\ SessionUser(last'.cookie) # None
        /\ SessionUser(last'.cookie) # Posts[last'.id].author)
          => /\ last'.resp = HTTPException("403")
             /\ posts' = posts
             /\ posts_collection' = posts_collection
      ]_vars

\* A logged-in user who is not the author was refused, and the post is
\* still there.
C3_Witness ==
    /\ last.op \in {"edit_post", "delete_post"}
    /\ last.resp = HTTPException("403")
    /\ last.id \in DOMAIN Posts
    /\ SessionUser(last.cookie) # None
    /\ SessionUser(last.cookie) # Posts[last.id].author

\* The step answers a like_post request that issued its update.
Likes(cookie, post_id) ==
    /\ Answers({"like_post"})
    /\ last'.steps = 1
    /\ last'.cookie = cookie
    /\ last'.id = post_id

\* C4: like_post is a membership toggle: a call by an authenticated user on
\* an existing post adds the username to the likes if it was absent and
\* removes it if it was present, adds or removes nobody else, and a second
\* call in a row by the same user restores the membership the likes had
\* before the first.
C4_LikeIsAToggle ==
    [][\A p \in PostIds :
          /\ (/\ Answers({"like_post"})
              /\ last'.id = p
              /\ p \in DOMAIN Posts
              /\ SessionUser(last'.cookie) # None)
                => LET u == SessionUser(last'.cookie)
                   IN  /\ last'.steps = 1
                       /\ LikedBy(Posts', p) =
                             IF u \in LikedBy(Posts, p)
                             THEN LikedBy(Posts, p) \ {u}
                             ELSE LikedBy(Posts, p) \cup {u}
          /\ (/\ last.op = "like_post"
              /\ last.steps = 1
              /\ Likes(last.cookie, last.id)
              /\ last.id = p)
                => LikedBy(Posts', p) = last.likes_before
      ]_vars

\* A second like_post in a row by the same user has just taken the like
\* back, and somebody else's like is still there.
C4_Witness ==
    /\ last.op = "like_post"
    /\ last.steps = 1
    /\ SessionUser(last.cookie) # None
    /\ SessionUser(last.cookie) \in last.likes_before
    /\ SessionUser(last.cookie) \notin LikedBy(Posts, last.id)
    /\ LikedBy(Posts, last.id) # {}

\* ------------------------------------------------------- claims C5, C7
\* C5: register, called with a username or an email that an existing user
\* record already holds, inserts no record, leaves every record unchanged,
\* and re-renders the registration form with an error message and the
\* submitted username and email filled in (no redirect to login).
C5_TakenRegistrationIsRefused ==
    [][(/\ Answers({"register"})
        /\ \E i \in DOMAIN users : \/ users[i].username = last'.name
                                   \/ users[i].email = last'.email)
          => /\ users' = users
             /\ last'.resp.kind = "template"
             /\ last'.resp.val = "register.html"
             /\ last'.resp.error # None
             /\ last'.resp.username = last'.name
             /\ last'.resp.email = last'.email
      ]_vars

\* A registration with a free username and a taken email was refused.
C5_Witness ==
    /\ last.op = "register"
    /\ last.resp.error = "Email already registered"
    /\ \A i \in DOMAIN users : users[i].username # last.name
    /\ \E i \in DOMAIN users : users[i].email = last.email

\* No two user records carry the same email.
EmailsUnique ==
    \A i \in DOMAIN users, j \in DOMAIN users :
        i # j => users[i].email # users[j].email

\* C7: after any sequence of register and edit_profile requests no two user
\* records carry the same email, and an edit_profile that submits an email
\* another user holds ends in a response, not in an unhandled exception,
\* and leaves every user record unchanged.
C7_TakenEmailIsHandled ==
    [][/\ EmailsUnique'
       /\ (/\ Answers({"edit_profile"})
           /\ \E i \in DOMAIN users : /\ users[i].email = last'.email
                                      /\ users[i].username # last'.cookie.sub)
             => /\ last'.resp.kind # "exception"
                /\ users' = users
      ]_vars

\* ------------------------------------------------------------- claim C6
\* C6: in every reachable state, under any interleaving of registration
\* (register / signup) and edit_profile requests, no two user records of
\* either application carry the same username.
C6_UsernamesAreUnique ==
    /\ \A i \in DOMAIN users, j \in DOMAIN users :
          i # j => users[i].username # users[j].username
    /\ \A i \in DOMAIN users_collection, j \in DOMAIN users_collection :
          i # j => users_collection[i].username # users_collection[j].username

\* Two overlapping requests went for one username: the second write met
\* the unique index.
C6_Witness ==
    /\ last.op \in {"register", "edit_profile"}
    /\ last.resp = Unhandled("DuplicateKeyError")
    /\ \E i \in DOMAIN users : /\ users[i].username = last.name
                               /\ users[i].email # last.email

\* ------------------------------------------------------- claims C8, C9
\* C8: after admin_delete_user, asked by the admin, has removed the record
\* of user U, no post whose author is U's username remains.
C8_DeleteUserCascadesToPosts ==
    [][(/\ Answers({"admin_delete_user"})
        /\ last'.cookie \in issued
        /\ last'.cookie.role = "admin"
        /\ last'.id \in DOMAIN users
        /\ last'.id \notin DOMAIN users')
          => \A p \in DOMAIN posts' :
                posts'[p].author # users[last'.id].username
      ]_vars

\* C9: admin_dashboard, admin_delete_user and admin_delete_post take effect
\* only for a request whose admin_token cookie decodes to a valid payload
\* with role = admin; for any other request nothing is shown and no user
\* record and no post is deleted.
C9_AdminRoutesNeedAnAdminToken ==
    [][(/\ Answers({"admin_dashboard", "admin_delete_user", "admin_delete_post"})
        /\ ~(last'.cookie \in issued /\ last'.cookie.role = "admin"))
          => /\ users' = users
             /\ posts' = posts
             /\ last'.resp.kind # "template"
      ]_vars

\* ------------------------------------------------------------ claim C10
\* Does the request carry a session cookie the application accepts: a token
\* the server signed, or (plaintext cookie) the name of an existing user?
ValidSession(cookie) ==
    IF impl = "signed" THEN cookie \in issued
    ELSE cookie.sig = "raw"
         /\ \E i \in DOMAIN users_collection :
               users_collection[i].username = cookie.sub

\* The step answers a request without a valid session cookie to a handler
\* that needs a logged-in user.
AnswersStranger ==
    /\ Answers(PageOps \cup MutatingOps)
    /\ ~ValidSession(last'.cookie)

\* C10 as stated: every handler that needs a logged-in user answers a
\* request without a valid session cookie by redirecting to the login page,
\* and writes nothing to users or posts.
C10_StrangersAreRedirectedToLogin ==
    [][AnswersStranger =>
          /\ last'.resp = RedirectResponse("/login")
          /\ UNCHANGED <<store, issued>>
      ]_vars

\* How each handler refuses a request without a valid session.
Refusal(op) ==
    IF impl = "signed"
    THEN IF op \in PageOps THEN RedirectResponse("/login")
         ELSE HTTPException("401")
    ELSE IF op \in {"edit_post_form", "edit_post", "delete_post"}
         THEN HTTPException("403")
         ELSE RedirectResponse("/login")

\* C10, amended: every handler that needs a logged-in user refuses a
\* request without a valid session cookie and writes nothing to users or
\* posts: the page handlers of the signed-token application and profile,
\* create_post, like_post and comment_on_post of the plaintext-cookie
\* application redirect to the login page, the mutating handlers of the
\* signed-token application answer 401, and edit_post_form, edit_post and
\* delete_post of the plaintext-cookie application answer 403.
C10_StrangersAreRefusedWithoutAWrite ==
    [][AnswersStranger =>
          /\ last'.resp = Refusal(last'.op)
          /\ UNCHANGED <<store, issued>>
      ]_vars

\* A request with a made-up token to a mutating handler of the signed-token
\* application was refused while there was a post to write to.
C10_Witness ==
    /\ impl = "signed"
    /\ last.op \in MutatingOps
    /\ last.cookie.sig = "forged"
    /\ last.resp = HTTPException("401")
    /\ DOMAIN posts # {}
    /\ DOMAIN users # {}

\* ------------------------------------------------------------ claim C11
\* The operations addressed to a post _id, and those addressed to a
\* username.
PostOps == {"view_post", "like_post", "add_comment", "comment_on_post",
            "edit_post", "delete_post", "admin_delete_post"}

UserOps == {"profile", "follow_user", "unfollow_user"}

\* The step answers a logged-in user's request whose path names a post or
\* a user no record exists for.
AnswersMissingTarget ==
    /\ Answers(PostOps \cup UserOps)
    /\ ValidSession(last'.cookie)
    /\ IF last'.op \in PostOps
       THEN last'.id \notin DOMAIN (IF impl = "signed" THEN posts
                                    ELSE posts_collection)
       ELSE /\ impl = "signed"
            /\ \A i \in DOMAIN users : users[i].username # last'.name

\* C11: a handler addressed to a post _id or a username for which no
\* record exists answers with the not-found HTTP error status and writes
\* nothing.
C11_MissingTargetIsNotFound ==
    [][AnswersMissingTarget =>
          /\ last'.resp = HTTPException("404")
          /\ UNCHANGED <<store, issued>>
      ]_vars

\* ------------------------------------------------------------ claim C12
\* The content types the profile-picture endpoint is documented to take.
ImageTypes == {"image/jpeg", "image/png", "image/jpg", "image/gif",
               "image/webp"}

\* C12: upload_profile_picture, called with a session for username U and a
\* content type outside the image types, answers 400, stores no file and
\* changes no user record; with an image type it stores one new file and
\* sets profile_pic of the record named U, and of no other record, to the
\* path of that file.
C12_UploadChecksTheContentType ==
    [][(/\ Answers({"upload_profile_picture"})
        /\ last'.cookie \in issued)
       =>
       IF last'.name \notin ImageTypes
       THEN /\ last'.resp = HTTPException("400")
            /\ UNCHANGED <<store, uploads>>
       ELSE /\ \E path \in uploads' \ uploads :
                  /\ uploads' = uploads \cup {path}
                  /\ users' = [i \in DOMAIN users |->
                                  IF users[i].username = last'.cookie.sub
                                  THEN [users[i] EXCEPT !.profile_pic = path]
                                  ELSE users[i]]
            /\ UNCHANGED <<posts, next_user_id, next_post_id>>
      ]_vars

\* One of two users has uploaded a picture, the other has none, and the
\* last upload, of another content type, was refused.
C12_Witness ==
    /\ last.op = "upload_profile_picture"
    /\ last.cookie \in issued
    /\ last.resp = HTTPException("400")
    /\ \E i \in DOMAIN users, j \in DOMAIN users :
          /\ users[i].profile_pic \in uploads
          /\ users[i].username = last.cookie.sub
          /\ users[j].profile_pic = None

\* ------------------------------------------------------------ claim C13
\* No user record holds the username the cookie names.
NoRecordFor(cookie) ==
    LET coll == IF impl = "signed" THEN users ELSE users_collection
    IN  \A i \in DOMAIN coll : coll[i].username # cookie.sub

\* C13: a request whose session cookie names a username that no user
\* record holds at the time of the request (never registered, deleted, or
\* renamed away) is not authenticated: the handler refuses it as it refuses
\* a request without a session, and writes nothing.
C13_SessionNeedsAUserRecord ==
    [][(/\ Answers(PageOps \cup MutatingOps)
        /\ last'.cookie.sig # "absent"
        /\ NoRecordFor(last'.cookie))
       =>
       /\ last'.resp = Refusal(last'.op)
       /\ UNCHANGED <<store, issued>>
      ]_vars

\* ------------------------------------------------------------ claim C14
\* C14: a request that writes to users or posts as a user carries a session
\* cookie the application set, at a login with that user's password or at
\* that user's rename: no client writes under a name it never logged in as.
C14_WritesNeedAnIssuedCookie ==
    [][(/\ Answers(MutatingOps)
        /\ <<users, posts, users_collection, posts_collection>>' #
           <<users, posts, users_collection, posts_collection>>)
       => last'.cookie \in issued
      ]_vars

\* ------------------------------------------------------------ claim C15
\* No follow_user or unfollow_user request is between its two updates.
NoFollowInFlight ==
    \A s \in DOMAIN inflight :
        inflight[s].op \notin {"follow_user", "unfollow_user"}

\* C15: whenever no follow_user or unfollow_user request is between its
\* two updates, for all user records A and B, B's username is in A's
\* following list exactly when A's username is in B's followers list.
C15_FollowersMirrorFollowing ==
    NoFollowInFlight =>
        \A i \in DOMAIN users, j \in DOMAIN users :
            users[j].username \in Range(users[i].following)
                <=> users[i].username \in Range(users[j].followers)

\* ------------------------------------------------------------ claim C16
\* The step answers a request that was waiting between two awaits.
Responds(ops) ==
    /\ last'.op \in ops
    /\ DOMAIN inflight' # DOMAIN inflight
    /\ DOMAIN inflight' \subseteq DOMAIN inflight

\* C16: when a rename old -> new has run next to requests that mention the
\* renamed user (follows of old, requests carrying a token for old), then
\* once all of them have finished no post author, like, comment, followers
\* or following entry holds old.  Stated for the step on which the rename
\* is the last of these requests to finish, after a sweep of all six
\* updates for a user whose record carried old.
C16_RenameWinsOverOverlappingRequests ==
    [][\A old \in OverlapNames, new \in OverlapNames :
          (/\ Responds({"edit_profile"})
           /\ last'.steps = RenameUpdates
           /\ last'.cookie.sub = old
           /\ last'.name = new
           /\ \E i \in DOMAIN users' : users'[i].username = new
           /\ DOMAIN inflight' = {})
          => ~Occurs(old, users', posts')
      ]_vars

\* ------------------------------------------------------------ claim C17
\* No element occurs twice in the array.
NoDuplicates(array) ==
    \A i \in DOMAIN array, j \in DOMAIN array : array[i] = array[j] => i = j

\* C17: in every reachable state the likes list of every post, in both
\* applications, holds each username at most once.
C17_LikesHoldEachUserOnce ==
    /\ \A p \in DOMAIN posts : NoDuplicates(posts[p].likes)
    /\ \A p \in DOMAIN posts_collection :
          NoDuplicates(posts_collection[p].likes)

\* ------------------------------------------------------------ claim C19
\* The step answers the second of two like_post requests by one user on one
\* post that overlapped: the first was answered just before, and the two
\* read the same membership of the user in the likes list, that is, the
\* second had read before the first wrote.
SecondOfTwoOverlappingLikes(s) ==
    /\ s \in DOMAIN inflight
    /\ s \notin DOMAIN inflight'
    /\ Responds({"like_post"})
    /\ last.op = "like_post"
    /\ last.resp.kind = "redirect"
    /\ last.cookie = last'.cookie
    /\ last.id = last'.id
    /\ last.cookie.sub \in last.likes_before
          <=> last.cookie.sub \in Range(inflight[s].read)

\* C19: two like_post requests by the same user on the same post that
\* overlap leave the user's membership in the likes list as it was before
\* the two requests, as the two requests run one after the other would.
C19_OverlappingLikesCancelOut ==
    [][\A s \in Slots :
          SecondOfTwoOverlappingLikes(s) =>
             (last'.cookie.sub \in LikedBy(posts', last'.id)
                 <=> last'.cookie.sub \in last.likes_before)
      ]_vars

\* ------------------------------------------------------------ claim C18
\* C18: add_comment (comment_on_post in the plaintext-cookie application)
\* of a session user on an existing post appends one comment, with the
\* session user's username and the submitted text, at the end of that
\* post's comments; the earlier comments keep content and order, and no
\* other field, post or user record changes.
C18_CommentIsAppended ==
    [][(/\ Answers({"add_comment", "comment_on_post"})
        /\ ValidSession(last'.cookie))
       =>
       IF impl = "signed"
       THEN last'.id \in DOMAIN posts =>
               /\ posts' = [posts EXCEPT ![last'.id].comments =
                               Append(@, [username |-> last'.cookie.sub,
                                          text |-> last'.name])]
               /\ users' = users
       ELSE last'.id \in DOMAIN posts_collection =>
               /\ posts_collection' =
                     [posts_collection EXCEPT ![last'.id].comments =
                         Append(@, [author |-> last'.cookie.sub,
                                    text |-> last'.name])]
               /\ users_collection' = users_collection
      ]_vars

\* A second comment was appended after a first of another text, while
\* another post has a comment of its own.
C18_Witness ==
    LET coll == IF impl = "signed" THEN posts ELSE posts_collection
    IN  /\ last.op \in {"add_comment", "comment_on_post"}
        /\ last.id \in DOMAIN coll
        /\ Len(coll[last.id].comments) = 2
        /\ coll[last.id].comments[1].text # coll[last.id].comments[2].text
        /\ coll[last.id].comments[2].text = last.name
        /\ \E q \in DOMAIN coll : q # last.id /\ Len(coll[q].comments) = 1

\* ------------------------------------------------------------ claim C20
\* No user record lists its own username as a follower or as a followee.
NoSelfFollow(u) ==
    \A i \in DOMAIN u :
        /\ u[i].username \notin Range(u[i].following)
        /\ u[i].username \notin Range(u[i].followers)

\* C20: follow_user with the session user's own username answers 400 and
\* writes nothing, and after every request no user record's following or
\* followers list contains that record's own username.
C20_NoUserFollowsThemself ==
    [][/\ (/\ Answers({"follow_user"})
           /\ last'.cookie \in issued
           /\ last'.name = last'.cookie.sub)
          => /\ last'.resp = HTTPException("400")
             /\ UNCHANGED <<store, issued>>
       /\ NoSelfFollow(users')
      ]_vars

\* ------------------------------------------------------------ claim C21
\* C21: after any sequence of register, create_post, edit_profile and
\* admin_delete_user requests, every post for which edit_post or delete_post
\* succeeds for a session user with a user record was created by a
\* create_post request of that same record, never by another record that
\* once held the username.
C21_OnlyTheCreatingAccountEditsOrDeletes ==
    [][(/\ Answers({"edit_post", "delete_post"})
        /\ last'.cookie \in issued
        /\ FindOne(users, LAMBDA d : d.username = last'.cookie.sub) # 0
        /\ last'.steps = 1)
       =>
       created_by[last'.id] =
           FindOne(users, LAMBDA d : d.username = last'.cookie.sub)
      ]_vars

\* ------------------------------------------------------------ claim C22
\* C22: edit_profile with a new_username that differs from the session
\* user's and that a user record already holds changes nothing: no field of
\* any user record (the submitted email and password included), no post
\* and no session cookie, and the edit form is rendered again with an error.
C22_TakenUsernameChangesNothing ==
    [][(/\ Answers({"edit_profile"})
        /\ last'.cookie \in issued
        /\ last'.name # last'.cookie.sub
        /\ \E i \in DOMAIN users : users[i].username = last'.name)
       =>
       /\ UNCHANGED <<store, issued>>
       /\ last'.resp.kind = "template"
       /\ last'.resp.val = "edit_profile.html"
       /\ last'.resp.error # None
       /\ last'.resp.set_cookie = NoToken
      ]_vars

\* A user asked for another user's username and submitted a new email in
\* the same form: the form came back with the error.
C22_Witness ==
    /\ last.op = "edit_profile"
    /\ last.resp.error = "Username already taken"
    /\ last.name # last.cookie.sub
    /\ last.email # None
    /\ \E i \in DOMAIN users, j \in DOMAIN users :
          /\ users[i].username = last.cookie.sub
          /\ users[i].email # last.email
          /\ users[j].username = last.name

\* ------------------------------------------------------------ claim C23
\* The step answers edit_post or delete_post, asked by the author of a post
\* that exists.
AnswersAuthor(op) ==
    /\ Answers({op})
    /\ last'.id \in DOMAIN Posts
    /\ SessionUser(last'.cookie) # None
    /\ SessionUser(last'.cookie) = Posts[last'.id].author

\* Nothing but the posts of the deployed application changes.
OnlyPostsChange ==
    /\ UNCHANGED <<users, users_collection, next_user_id, issued, uploads>>
    /\ impl = "signed" => posts_collection' = posts_collection
    /\ impl = "plain" => posts' = posts

\* C23: a successful edit_post by the post's author changes only that
\* post's content: its author, likes, comments, timestamp and image, every
\* other post and every user record are unchanged; a successful delete_post
\* by the author removes exactly that one post and changes nothing else.
C23_EditAndDeleteTouchOnePost ==
    [][/\ AnswersAuthor("edit_post") =>
             /\ last'.resp.kind = "redirect"
             /\ Posts' = [Posts EXCEPT ![last'.id].content = last'.name]
             /\ OnlyPostsChange
       /\ AnswersAuthor("delete_post") =>
             /\ last'.resp.kind = "redirect"
             /\ Posts' = [q \in DOMAIN Posts \ {last'.id} |-> Posts[q]]
             /\ OnlyPostsChange
      ]_vars

\* The author has deleted one of two posts; the other, edited before and
\* liked, is still there with its new content and its like.
C23_Witness ==
    /\ last.op = "delete_post"
    /\ last.steps = 1
    /\ last.id \notin DOMAIN Posts
    /\ \E q \in DOMAIN Posts :
          /\ Posts[q].content = "t2"
          /\ Posts[q].likes # << >>

\* ------------------------------------------------------------ claim C24
\* A user record named username exists, and the password verifies against
\* the credential it stores.
CredentialVerifies(username, password) ==
    IF impl = "signed"
    THEN \E i \in DOMAIN users :
            /\ users[i].username = username
            /\ verify_password(password, users[i].password)
    ELSE \E i \in DOMAIN users_collection :
            /\ users_collection[i].username = username
            /\ users_collection[i].password = password

\* The step answers a request the browser sent with the cookies it holds.
AnswersBrowser ==
    /\ Answers({"feed", "profile", "create_post"})
    /\ last'.cookie = jar[SessionKey]

\* C24: login issues a session cookie for username U if and only if a user
\* record named U exists and the submitted password verifies against that
\* record's stored credential; a failed login sets no cookie, writes nothing
\* to the store, and (signed-token application) renders the login form
\* again with an error; logout removes the session cookie, so that the
\* browser's next request is handled as unauthenticated.
C24_LoginIssuesAndLogoutRemovesTheCookie ==
    [][/\ \A n \in OverlapNames, pw \in Passwords :
             (login(n, pw) \/ login_plain(n, pw)) =>
                IF CredentialVerifies(n, pw)
                THEN /\ last'.resp.cookie_key = SessionKey
                     /\ last'.resp.set_cookie \notin {NoToken, ExpiredCookie}
                     /\ SessionUser(last'.resp.set_cookie) = n
                     /\ jar'[SessionKey] = last'.resp.set_cookie
                ELSE /\ last'.resp.cookie_key = None
                     /\ last'.resp.set_cookie = NoToken
                     /\ UNCHANGED <<store, issued, jar>>
                     /\ impl = "signed" =>
                           /\ last'.resp.kind = "template"
                           /\ last'.resp.val = "login.html"
                           /\ last'.resp.error # None
       /\ (logout \/ logout_plain) =>
             /\ jar'[SessionKey] = NoToken
             /\ UNCHANGED <<store, issued>>
       /\ (last.op = "logout" /\ AnswersBrowser) =>
             /\ last'.resp = Refusal(last'.op)
             /\ UNCHANGED <<store, issued>>
      ]_vars

\* The browser logged in, logged out, and its next request, sent without
\* the cookie, was refused.
C24_Witness ==
    /\ last.op \in {"feed", "profile", "create_post"}
    /\ last.cookie = NoToken
    /\ last.resp = Refusal(last.op)
    /\ jar[SessionKey] = NoToken
    /\ issued # {}

\* ------------------------------------------------------------ claim C25
\* The _ids are in descending order of timestamp.
NewestFirst(shown) ==
    \A i \in DOMAIN shown, j \in DOMAIN shown :
        i < j => posts[shown[i]].timestamp >= posts[shown[j]].timestamp

\* The _ids are in non-increasing order of like count, the newer first
\* among posts with as many likes.
MostLikedFirst(shown) ==
    \A i \in DOMAIN shown, j \in DOMAIN shown :
        i < j => \/ Len(posts[shown[i]].likes) > Len(posts[shown[j]].likes)
                 \/ /\ Len(posts[shown[i]].likes) = Len(posts[shown[j]].likes)
                    /\ posts[shown[i]].timestamp >= posts[shown[j]].timestamp

\* The page shows each of the posts in `wanted` once and no other post, or
\* FeedLimit of them when there are more.
ShowsUpToLimit(shown, wanted) ==
    /\ Range(shown) \subseteq wanted
    /\ NoDuplicates(shown)
    /\ Len(shown) = IF Cardinality(wanted) < FeedLimit
                    THEN Cardinality(wanted) ELSE FeedLimit

\* The following list of the record the username names, empty without one.
FollowingOf(username) ==
    LET user == FindOne(users, LAMBDA d : d.username = username)
    IN  IF user = 0 THEN << >> ELSE users[user].following

\* C25: feed, asked with a session cookie the application issued, renders
\* the page; with filter=following it shows exactly the posts (up to 100,
\* newest first) whose author is the session user or a member of the
\* session user's following list, and no post by any other author; with
\* filter=popular it shows posts in non-increasing order of like count,
\* ties broken by newer timestamp first; with no filter it shows all posts
\* newest first.
C25_FeedShowsTheFilteredPostsInOrder ==
    [][(/\ Answers({"feed"})
        /\ last'.cookie \in issued
        /\ last'.name \in {None, "following", "popular"})
       =>
       LET shown == last'.resp.posts
           username == last'.cookie.sub
       IN  /\ last'.resp.kind = "template"
           /\ last'.name = "following" =>
                 /\ ShowsUpToLimit(shown,
                        {p \in DOMAIN posts :
                            posts[p].author \in
                                Range(FollowingOf(username)) \cup {username}})
                 /\ NewestFirst(shown)
           /\ last'.name = "popular" => MostLikedFirst(shown)
           /\ last'.name = None =>
                 /\ Range(shown) = DOMAIN posts
                 /\ NoDuplicates(shown)
                 /\ NewestFirst(shown)
      ]_vars

====
